---------------------------- MODULE Spec2Model ----------------------------
(***************************************************************************)
(* ccsh (Compact C Shell): the command execution and job-control engine   *)
(* of src/main.c, second translation unit (lines 235-1082): the main loop, *)
(* the job table, the alias table, alias expansion, the redirection /      *)
(* background parser and the built-in dispatch chain.                      *)
(*                                                                         *)
(* Strings are sequences of one-character strings, so that strtok, strcmp, *)
(* strncpy and atoi are computed on characters as the C code computes them.*)
(***************************************************************************)
EXTENDS Integers, Sequences, FiniteSets, TLC

(***************************************************************************)
(* Capacities.  The source has MAX_JOBS = 64 (main.c:276), MAX_ALIASES =   *)
(* 64 (main.c:277) and char name[64] (main.c:287); the model keeps the     *)
(* code's comparisons against them and scales the three numbers down so    *)
(* that a full table and a truncated name are reachable.                   *)
(***************************************************************************)
MAX_JOBS == 3
MAX_ALIASES == 3
NAME_SIZE == 3

\* char value[1024] (Alias) and char command[1024] (Job)
VALUE_SIZE == 1024
COMMAND_SIZE == 1024

\* Process identifiers: enough for a full job table and one more child.  The
\* program only stores pids and hands them back to waitpid, so they are
\* interchangeable, and fork is modelled as returning the lowest pid not in
\* use, one representative of the kernel's choices (a collected pid is reused
\* at once).
Pids == 1..(MAX_JOBS + 1)

----------------------------------------------------------------------------
(* Characters and C string functions *)

SP == " "
TAB == "\t"
Digits == <<"0", "1", "2", "3", "4", "5", "6", "7", "8", "9">>

IsDigit(c) == \E k \in 1..10 : Digits[k] = c
DigitVal(c) == (CHOOSE k \in 1..10 : Digits[k] = c) - 1

\* strncpy(dst, src, size - 1); dst[size - 1] = '\0'
strncpy_z(src, size) ==
    IF Len(src) <= size - 1 THEN src ELSE SubSeq(src, 1, size - 1)

\* strchr(s, c): the 1-based position of the first c in s, 0 when absent
strchr(s, c) ==
    IF \E k \in 1..Len(s) : s[k] = c
    THEN CHOOSE k \in 1..Len(s) : s[k] = c /\ \A m \in 1..(k - 1) : s[m] # c
    ELSE 0

\* strtok's first phase: skip leading delimiters (the delimiter set is " ")
RECURSIVE SkipDelims(_)
SkipDelims(s) ==
    IF s = <<>> THEN <<>>
    ELSE IF Head(s) = SP THEN SkipDelims(Tail(s)) ELSE s

\* strtok's second phase: the token runs up to the next delimiter
RECURSIVE TakeToken(_)
TakeToken(s) ==
    IF s = <<>> \/ Head(s) = SP THEN <<>>
    ELSE <<Head(s)>> \o TakeToken(Tail(s))

\* what strtok leaves after a token of length n taken from s: the characters
\* behind the delimiter that ended it
AfterToken(s, n) == SubSeq(s, n + 2, Len(s))

\* the whole sequence strtok(input, " "), strtok(NULL, " "), ... returns
RECURSIVE strtok_seq(_)
strtok_seq(s) ==
    LET t == SkipDelims(s) IN
    IF t = <<>> THEN <<>>
    ELSE LET tok == TakeToken(t) IN
         <<tok>> \o strtok_seq(AfterToken(t, Len(tok)))

\* atoi: leading white space, an optional sign, then the leading digits
RECURSIVE SkipSpace(_)
SkipSpace(s) ==
    IF s = <<>> THEN <<>>
    ELSE IF Head(s) \in {SP, TAB} THEN SkipSpace(Tail(s)) ELSE s

\* atoi(s) is (int) strtol(s, NULL, 10).  strtol accumulates in a long of
\* 64 bits and stops at LONG_MAX or LONG_MIN; the conversion to int keeps the
\* low 32 bits.  The long is held as four limbs of 16 bits, least significant
\* first, and over records that it went beyond 64 bits.
LIMB == 65536

MulAdd10(a, d) ==
    LET t1 == 10 * a.limbs[1] + d
        t2 == 10 * a.limbs[2] + t1 \div LIMB
        t3 == 10 * a.limbs[3] + t2 \div LIMB
        t4 == 10 * a.limbs[4] + t3 \div LIMB
    IN  [limbs |-> <<t1 % LIMB, t2 % LIMB, t3 % LIMB, t4 % LIMB>>,
         over |-> a.over \/ t4 \div LIMB > 0]

RECURSIVE DigitsValue(_, _)
DigitsValue(s, acc) ==
    IF s = <<>> \/ ~IsDigit(Head(s)) THEN acc
    ELSE DigitsValue(Tail(s), MulAdd10(acc, DigitVal(Head(s))))

\* the int whose 32 bits are hi and lo
ToInt(hi, lo) ==
    IF hi >= LIMB \div 2 THEN (hi - LIMB) * LIMB + lo ELSE hi * LIMB + lo

strtol_int(s, negative) ==
    LET m == DigitsValue(s, [limbs |-> <<0, 0, 0, 0>>, over |-> FALSE])
        lo == m.limbs[1]
        hi == m.limbs[2]
    IN  IF m.over \/ m.limbs[4] >= LIMB \div 2
        THEN IF negative THEN 0 ELSE -1
        ELSE IF ~negative THEN ToInt(hi, lo)
        ELSE IF lo = 0 THEN ToInt((LIMB - hi) % LIMB, 0)
        ELSE ToInt(LIMB - 1 - hi, LIMB - lo)

atoi(s) ==
    LET t == SkipSpace(s) IN
    IF t = <<>> THEN 0
    ELSE IF Head(t) = "-" THEN strtol_int(Tail(t), TRUE)
    ELSE IF Head(t) = "+" THEN strtol_int(Tail(t), FALSE)
    ELSE strtol_int(t, FALSE)

----------------------------------------------------------------------------
(* Job table: Job jobs[MAX_JOBS]; int job_count.  The table is the sequence *)
(* jobs[0..job_count-1]; job_count is Len(jobs).                            *)

\* for (j = i; j < count - 1; j++) t[j] = t[j + 1]; count--;   (i is 1-based here)
ShiftOut(t, i) == SubSeq(t, 1, i - 1) \o SubSeq(t, i + 1, Len(t))

\* add_job without its capacity test
add_job_unchecked(J, pid, cmd) ==
    Append(J, [pid |-> pid, command |-> strncpy_z(cmd, COMMAND_SIZE)])

add_job(J, pid, cmd) ==
    IF Len(J) < MAX_JOBS
    THEN Append(J, [pid |-> pid, command |-> strncpy_z(cmd, COMMAND_SIZE)])
    ELSE J

\* The loop of check_background_jobs from index i on.  Z is the set of children
\* that have exited and are not yet collected: waitpid(pid, &status, WNOHANG)
\* returns pid for those (collecting them), 0 for a running child and -1 for a
\* pid that is no child.  The result is the table, the notices printed and the
\* children collected.
RECURSIVE PollFrom(_, _, _, _, _)
PollFrom(J, i, Z, notices, reaped) ==
    IF i > Len(J)
    THEN [jobs |-> J, notices |-> notices, reaped |-> reaped]
    ELSE IF J[i].pid \in Z \ reaped
         THEN PollFrom(ShiftOut(J, i), i, Z,
                       Append(notices, J[i].command), reaped \cup {J[i].pid})
         ELSE PollFrom(J, i + 1, Z, notices, reaped)

\* the poll that fills the gap with the last entry: jobs[i] = jobs[--job_count]
RECURSIVE PollSwapFrom(_, _, _, _, _)
PollSwapFrom(J, i, Z, notices, reaped) ==
    IF i > Len(J)
    THEN [jobs |-> J, notices |-> notices, reaped |-> reaped]
    ELSE IF J[i].pid \in Z \ reaped
         THEN PollSwapFrom(IF i = Len(J) THEN SubSeq(J, 1, Len(J) - 1)
                           ELSE SubSeq([J EXCEPT ![i] = J[Len(J)]], 1, Len(J) - 1),
                           i, Z, Append(notices, J[i].command),
                           reaped \cup {J[i].pid})
         ELSE PollSwapFrom(J, i + 1, Z, notices, reaped)

\* the poll without i--: after a removal it goes on with the next index
RECURSIVE PollSkipFrom(_, _, _, _, _)
PollSkipFrom(J, i, Z, notices, reaped) ==
    IF i > Len(J)
    THEN [jobs |-> J, notices |-> notices, reaped |-> reaped]
    ELSE IF J[i].pid \in Z \ reaped
         THEN PollSkipFrom(ShiftOut(J, i), i + 1, Z,
                           Append(notices, J[i].command),
                           reaped \cup {J[i].pid})
         ELSE PollSkipFrom(J, i + 1, Z, notices, reaped)

check_background_jobs_skip(J, Z) == PollSkipFrom(J, 1, Z, <<>>, {})

\* the poll that collects the exited children and leaves their entries
check_background_jobs_keep(J, Z) ==
    [PollFrom(J, 1, Z, <<>>, {}) EXCEPT !.jobs = J]

check_background_jobs_swap(J, Z) == PollSwapFrom(J, 1, Z, <<>>, {})

check_background_jobs(J, Z) == PollFrom(J, 1, Z, <<>>, {})

----------------------------------------------------------------------------
(* Alias table: Alias aliases[MAX_ALIASES]; int alias_count *)

NULL == <<"NULL">>

\* the first index whose name strcmp-equals name, 0 when there is none
FindAlias(A, name) ==
    IF \E k \in 1..Len(A) : A[k].name = name
    THEN CHOOSE k \in 1..Len(A) :
            A[k].name = name /\ \A m \in 1..(k - 1) : A[m].name # name
    ELSE 0

\* add_alias that tests the capacity before it looks for the name
add_alias_capacity_first(A, name, value) ==
    LET k == FindAlias(A, name) IN
    IF Len(A) >= MAX_ALIASES
    THEN [aliases |-> A, err |-> "Alias limit reached."]
    ELSE IF k # 0
    THEN [aliases |-> [A EXCEPT ![k].value = strncpy_z(value, VALUE_SIZE)],
          err |-> ""]
    ELSE [aliases |-> Append(A, [name |-> strncpy_z(name, NAME_SIZE),
                                 value |-> strncpy_z(value, VALUE_SIZE)]),
          err |-> ""]

add_alias(A, name, value) ==
    LET k == FindAlias(A, name) IN
    IF k # 0
    THEN [aliases |-> [A EXCEPT ![k].value = strncpy_z(value, VALUE_SIZE)],
          err |-> ""]
    ELSE IF Len(A) < MAX_ALIASES
         THEN [aliases |-> Append(A, [name |-> strncpy_z(name, NAME_SIZE),
                                      value |-> strncpy_z(value, VALUE_SIZE)]),
               err |-> ""]
         ELSE [aliases |-> A, err |-> "Alias limit reached."]

\* remove_alias that fills the gap with the last entry
remove_alias_swap(A, name) ==
    LET k == FindAlias(A, name) IN
    IF k # 0
    THEN [aliases |-> IF k = Len(A) THEN SubSeq(A, 1, Len(A) - 1)
                      ELSE SubSeq([A EXCEPT ![k] = A[Len(A)]], 1, Len(A) - 1),
          err |-> ""]
    ELSE [aliases |-> A, err |-> "Alias not found"]

remove_alias(A, name) ==
    LET k == FindAlias(A, name) IN
    IF k # 0
    THEN [aliases |-> ShiftOut(A, k), err |-> ""]
    ELSE [aliases |-> A, err |-> "Alias not found"]

get_alias_value(A, name) ==
    LET k == FindAlias(A, name) IN
    IF k # 0 THEN A[k].value ELSE NULL

----------------------------------------------------------------------------
(* Alias expansion and the redirection / background parser *)

\* char line_copy[2048] and char expanded_line[2048]
LINE_SIZE == 2048

\* expand_alias that leaves out the rest of the line
expand_alias_norest(A, line) ==
    LET line_copy == strncpy_z(line, LINE_SIZE)
        t == SkipDelims(line_copy)
        token == TakeToken(t)
        alias_val == get_alias_value(A, token)
    IN  IF t = <<>> THEN <<>>
        ELSE IF alias_val # NULL THEN strncpy_z(alias_val, LINE_SIZE)
        ELSE strncpy_z(line, LINE_SIZE)

\* expand_alias that expands the first word of its result once more
expand_alias_twice(A, line) ==
    LET Once(l) ==
          LET t == SkipDelims(strncpy_z(l, LINE_SIZE))
              token == TakeToken(t)
              alias_val == get_alias_value(A, token)
              rest == AfterToken(t, Len(token))
          IN  IF t = <<>> THEN <<>>
              ELSE IF alias_val # NULL
                   THEN strncpy_z(IF rest # <<>> THEN alias_val \o <<SP>> \o rest
                                                 ELSE alias_val, LINE_SIZE)
                   ELSE strncpy_z(l, LINE_SIZE)
    IN  Once(Once(line))

expand_alias(A, line) ==
    LET line_copy == strncpy_z(line, LINE_SIZE)
        t == SkipDelims(line_copy)
        token == TakeToken(t)
        alias_val == get_alias_value(A, token)
        rest == AfterToken(t, Len(token))   \* strtok(NULL, ""): NULL when empty
    IN  IF t = <<>> THEN <<>>
        ELSE IF alias_val # NULL
             THEN strncpy_z(IF rest # <<>> THEN alias_val \o <<SP>> \o rest
                                           ELSE alias_val, LINE_SIZE)
             ELSE strncpy_z(line, LINE_SIZE)

\* the while loop of parse_command over the tokens strtok returns, from the
\* k-th on; an operator takes the next token (NULL when there is none) as its
\* operand
RECURSIVE ParseFrom(_, _, _)
ParseFrom(toks, k, acc) ==
    IF k > Len(toks) THEN acc
    ELSE LET token == toks[k]
             operand == IF k + 1 <= Len(toks) THEN toks[k + 1] ELSE NULL
         IN  IF token = <<"<">>
             THEN ParseFrom(toks, k + 2, [acc EXCEPT !.infile = operand])
             ELSE IF token = <<">">>
             THEN ParseFrom(toks, k + 2,
                            [acc EXCEPT !.outfile = operand, !.append = 0])
             ELSE IF token = <<">", ">">>
             THEN ParseFrom(toks, k + 2,
                            [acc EXCEPT !.outfile = operand, !.append = 1])
             ELSE IF token = <<"&">>
             THEN ParseFrom(toks, k + 1, [acc EXCEPT !.background = 1])
             ELSE ParseFrom(toks, k + 1,
                            [acc EXCEPT !.args = Append(acc.args, token)])

parse_command(input) ==
    ParseFrom(strtok_seq(input), 1,
              [args |-> <<>>, background |-> 0, infile |-> NULL,
               outfile |-> NULL, append |-> 0])

----------------------------------------------------------------------------
(* The file system and glob(3) *)

\* the value of HOME at the start, also the directory the shell starts in
HomeDir == <<"/", "h">>

\* The directories that exist and can be entered, and the regular files.
Dirs == { <<"/">>, HomeDir, HomeDir \o <<"/", "d">> }
Files == { HomeDir \o <<"/", "a">>, HomeDir \o <<"/", "a", "b">> }

\* the characters of path names, in the order of their codes
CharOrder == <<"/", "a", "b", "d", "h">>
Code(c) == CHOOSE k \in 1..Len(CharOrder) : CharOrder[k] = c

\* strcmp(s, t) < 0
RECURSIVE Less(_, _)
Less(s, t) ==
    IF t = <<>> THEN FALSE
    ELSE IF s = <<>> THEN TRUE
    ELSE IF Head(s) = Head(t) THEN Less(Tail(s), Tail(t))
    ELSE Code(Head(s)) < Code(Head(t))

\* the strings of a finite set in ascending order
RECURSIVE Sorted(_)
Sorted(S) ==
    IF S = {} THEN <<>>
    ELSE LET m == CHOOSE x \in S : \A y \in S \ {x} : Less(x, y)
         IN  <<m>> \o Sorted(S \ {m})

\* whether the pattern matches the whole string; * and ? match no "/"
RECURSIVE fnmatch(_, _)
fnmatch(p, s) ==
    IF p = <<>> THEN s = <<>>
    ELSE IF Head(p) = "*"
    THEN \/ fnmatch(Tail(p), s)
         \/ s # <<>> /\ Head(s) # "/" /\ fnmatch(p, Tail(s))
    ELSE IF Head(p) = "?"
    THEN s # <<>> /\ Head(s) # "/" /\ fnmatch(Tail(p), Tail(s))
    ELSE s # <<>> /\ Head(s) = Head(p) /\ fnmatch(Tail(p), Tail(s))

\* the names a pattern is matched against: the paths of the file system for
\* a pattern that starts with "/", the entries of the directory c otherwise
Candidates(c, pattern) ==
    IF pattern # <<>> /\ Head(pattern) = "/" THEN (Dirs \cup Files) \ {<<"/">>}
    ELSE LET pre == IF c = <<"/">> THEN c ELSE c \o <<"/">>
         IN  { SubSeq(e, Len(pre) + 1, Len(e)) :
                 e \in { f \in Dirs \cup Files :
                           /\ Len(f) > Len(pre)
                           /\ SubSeq(f, 1, Len(pre)) = pre
                           /\ \A k \in (Len(pre) + 1)..Len(f) : f[k] # "/" } }

\* GLOB_TILDE: a leading ~ that ends the pattern or stands before "/" is
\* replaced by the value of HOME h (left as it is when HOME is not set)
glob_tilde(h, pattern) ==
    IF /\ pattern # <<>> /\ Head(pattern) = "~"
       /\ Len(pattern) = 1 \/ pattern[2] = "/"
       /\ h # <<"NULL">> /\ h # <<>>
    THEN h \o Tail(pattern)
    ELSE pattern

\* the value glob returns when nothing matches (glob.h)
GLOB_NOMATCH == 3

\* glob(pattern, GLOB_TILDE [| GLOB_APPEND], NULL, &results) in directory c:
\* rc 0 and the sorted matches (appended to pathv under GLOB_APPEND), or
\* GLOB_NOMATCH and pathv as it was
glob(c, h, pattern, append, pathv) ==
    LET pat == glob_tilde(h, pattern)
        found == Sorted({ e \in Candidates(c, pat) : fnmatch(pat, e) })
    IN  IF found = <<>> THEN [rc |-> GLOB_NOMATCH, pathv |-> pathv]
        ELSE [rc |-> 0, pathv |-> IF append THEN pathv \o found ELSE found]

----------------------------------------------------------------------------
(* Command words and the input lines the model feeds to the loop *)

w_exit == <<"e", "x", "i", "t">>
w_cd == <<"c", "d">>
w_pwd == <<"p", "w", "d">>
w_jobs == <<"j", "o", "b", "s">>
w_fg == <<"f", "g">>
w_alias == <<"a", "l", "i", "a", "s">>
w_unalias == <<"u", "n", "a", "l", "i", "a", "s">>
w_help == <<"h", "e", "l", "p">>
w_path == <<"p", "a", "t", "h">>
w_which == <<"w", "h", "i", "c", "h">>
w_grep == <<"g", "r", "e", "p">>

\* tokens joined by single spaces
RECURSIVE Join(_)
Join(toks) ==
    IF toks = <<>> THEN <<>>
    ELSE IF Len(toks) = 1 THEN toks[1]
    ELSE toks[1] \o <<SP>> \o Join(Tail(toks))

\* the digits of 2^32, a number that does not fit an int
TwoTo32 == <<"4", "2", "9", "4", "9", "6", "7", "2", "9", "6">>

\* Input lines about job control: the empty line, lines of spaces and tabs,
\* an external command in the foreground and in the background, jobs, fg
\* with and without an index (indices inside and outside the table, a
\* negative one, one beyond the range of int), exit
JobLines ==
    { <<>>, <<SP>>, <<SP, SP>>, <<TAB>>, <<SP, TAB>>, <<TAB, TAB>>,
      <<"x">>, Join(<< <<"x">>, <<"&">> >>), w_jobs,
      w_fg, Join(<<w_fg, <<"0">> >>), Join(<<w_fg, <<"1">> >>),
      Join(<<w_fg, <<"2">> >>), Join(<<w_fg, <<"3">> >>),
      Join(<<w_fg, <<"4">> >>), Join(<<w_fg, <<"-", "1">> >>),
      Join(<<w_fg, TwoTo32>>),
      w_exit }

\* Input lines about aliases.  Names of one to four characters (the longer
\* ones do not fit the name field), two values for each, a value that is
\* a built-in name, and values in quotes, of one word and of two.
AliasNames == { <<"a">>, <<"b">>, <<"a", "b", "c">>, <<"a", "b", "c", "d">> }
AliasValues == { <<"x">>, <<"y">> }

SetLine(n, v) == Join(<<w_alias, n \o <<"=">> \o v>>)
UnsetLine(n) == Join(<<w_unalias, n>>)

\* alias n='v' and alias n="v"
QuotedLine(n, q, v) == w_alias \o <<SP>> \o n \o <<"=", q>> \o v \o <<q>>
Quotes == { "'", "\"" }
QuotedValues == { <<"x">>, <<"x", SP, "y">> }

AliasLines ==
    { QuotedLine(n, q, v) :
        n \in {<<"a">>, <<"b">>}, q \in Quotes, v \in QuotedValues }
    \cup
    { <<>>, w_alias, w_unalias, w_fg, w_exit,
      <<"a">>, Join(<< <<"a">>, <<"0">> >>),
      SetLine(<<"a">>, w_fg), Join(<<w_alias, <<"a">> >>),
      Join(<<w_alias, <<"=", "x">> >>), UnsetLine(<<"a", "b">>) }
    \cup { SetLine(n, v) : n \in AliasNames, v \in AliasValues }
    \cup { UnsetLine(n) : n \in AliasNames }

\* Input lines about cd: no path, absolute and relative paths that can and
\* cannot be entered, the forms of ~, and an external command
CdLines ==
    { <<>>, w_cd, w_pwd, w_exit, <<"x">>,
      Join(<<w_cd, <<"/">> >>), Join(<<w_cd, <<"/", "h">> >>),
      Join(<<w_cd, <<"d">> >>), Join(<<w_cd, <<"/", "n">> >>),
      Join(<<w_cd, <<"~">> >>), Join(<<w_cd, <<"~", "/", "d">> >>),
      Join(<<w_cd, <<"~", "/", "n">> >>), Join(<<w_cd, <<"~", "u">> >>),
      Join(<<w_cd, <<"/">>, <<"/", "n">> >>) }

\* Values of HOME: unset, empty, a directory, a path that is no directory
HomeValues == { NULL, <<>>, HomeDir, <<"/", "g">> }

\* Input lines that end the loop and lines that end in an error: exit with
\* and without an argument; an external command in the foreground, in the
\* background (the fourth finds the table full) and with an input file that
\* does not exist; fg on a job and on no job; alias with no "=", alias
\* setting a name, unalias with no name and with a name that is not set; cd
\* to no directory
ErrLines ==
    { w_exit, Join(<<w_exit, <<"1">> >>),
      <<"x">>, Join(<< <<"x">>, <<"&">> >>),
      Join(<< <<"x">>, <<"<">>, <<"z">> >>),
      Join(<<w_fg, <<"0">> >>), Join(<<w_fg, <<"9">> >>),
      Join(<<w_alias, <<"a">> >>), Join(<<w_unalias, <<"z">> >>), w_unalias,
      SetLine(<<"a">>, <<"x">>), Join(<<w_cd, <<"/", "g">> >>) }

\* Input lines about children: the programs e (writes its arguments as one
\* line, as echo does) and c (writes what it reads from its stdin, as cat
\* does) with output to a file, truncating and appending, and input from a
\* file; an input file that does not exist, alone and before an output
\* file; an output path that is a directory; a program that does not exist;
\* the failing ones in the background too; jobs
ChildLines ==
    { Join(<< <<"e">>, <<"h">>, <<">">>, <<"f">> >>),
      Join(<< <<"e">>, <<"w">>, <<">">>, <<"f">> >>),
      Join(<< <<"e">>, <<"w">>, <<">", ">">>, <<"f">> >>),
      Join(<< <<"c">>, <<"<">>, <<"f">> >>),
      Join(<< <<"c">>, <<"<">>, <<"n">> >>),
      Join(<< <<"c">>, <<"<">>, <<"n">>, <<">">>, <<"f">> >>),
      Join(<< <<"e">>, <<"h">>, <<">">>, <<"d">> >>),
      <<"z">>,
      Join(<< <<"z">>, <<"&">> >>),
      Join(<< <<"c">>, <<"<">>, <<"n">>, <<"&">> >>),
      w_jobs }

\* Input lines for the tokenizer: every line of up to MaxLineLen characters
\* out of two letters, the space and the tab
MaxLineLen == 5
TokChars == { "a", "b", SP, TAB }
TokLines == UNION { [1..n -> TokChars] : n \in 0..MaxLineLen }

\* Input lines whose iteration writes to stdout: a background command, jobs,
\* alias with no argument, and an alias to be listed
IoLines ==
    { Join(<< <<"x">>, <<"&">> >>), w_jobs, w_alias,
      SetLine(<<"a">>, <<"x">>) }

\* the sequences of one to n elements of S
SeqsUpTo(S, n) == UNION { [1..k -> S] : k \in 1..n }

\* Inputs for alias expansion: alias tables that alias commands can build
\* (distinct names, one-word values, among them values that are alias names),
\* and lines of one or two words, with some of three, some with extra
\* spaces and some that name a built-in
ExpandWords == { <<"a">>, <<"b">>, <<"x">> }
ExpandTables ==
    { <<>> }
    \cup { << [name |-> n, value |-> v] >> :
             n \in {<<"a">>, <<"b">>}, v \in ExpandWords }
    \cup { << [name |-> n[1], value |-> v], [name |-> n[2], value |-> w] >> :
             n \in { << <<"a">>, <<"b">> >>, << <<"b">>, <<"a">> >> },
             v \in ExpandWords, w \in ExpandWords }
ExpandLines ==
    { Join(t) : t \in SeqsUpTo(ExpandWords, 2) }
    \cup { <<SP, "a", SP, "x">>, <<"a", SP, SP, "b">>, <<"a", SP, "b", SP, "a">>,
           <<"x", SP, "a", SP, "b">>, <<"a", SP, "&">>, <<SP>>,
           w_pwd, w_exit, Join(<<w_pwd, <<"a">> >>) }

\* Inputs for the parser: lines of one to four tokens, each a word or an
\* operator
ParseTokens == { <<"x">>, <<"a">>, <<"<">>, <<">">>, <<">", ">">>, <<"&">> }
ParseLines == { Join(t) : t \in SeqsUpTo(ParseTokens, 4) }

\* Inputs for glob expansion: a command and one to three arguments, each a
\* word, a pattern with matches, a pattern without, or a token with a tilde
GlobTokens ==
    { <<"b">>, <<"*">>, <<"a", "*">>, <<"z", "*">>, <<"?">>, <<"~">>,
      <<"~", "/", "*">>, <<"~", "/", "z", "?">> }
GlobLines ==
    { Join(<< <<"x">> >> \o t) : t \in SeqsUpTo(GlobTokens, 3) }
    \cup { <<"*", SP, "b">>, <<"*">> }

LineInputs ==
    { [aliases |-> t, line |-> l] : t \in ExpandTables, l \in ExpandLines }
    \cup { [aliases |-> <<>>, line |-> l] : l \in ParseLines \cup GlobLines }

----------------------------------------------------------------------------
(* State *)

VARIABLES
    jobs,       \* the job table jobs[0..job_count-1], as a sequence
    aliases,    \* the alias table aliases[0..alias_count-1], as a sequence
    proc,       \* kernel view of each pid: "free", "running" or "zombie"
                \* (a child that has exited and is not yet collected)
    pc,         \* where main is: "prompt" (at readline), "wait_child" (in the
                \* foreground waitpid), "wait_job" (in fg's waitpid), "done"
    wait_pid,   \* the pid the blocking waitpid was called with, 0 when none
    job_id,     \* fg's job_id while main is in fg's waitpid, -1 otherwise
    untracked,  \* children launched with & that add_job did not record
    cwd,        \* the working directory of the shell process
    home,       \* the value of HOME in the environment, NULL when unset
    status,     \* the exit status of the shell process, -1 while it runs
    disk,       \* the regular files: path |-> content, a sequence of lines
    child,      \* for each pid, the child process of the latest fork that
                \* returned it: where it is in the child branch of main, its
                \* SIGINT disposition, its command, what its stdin and stdout
                \* are, and how it ended
    ev          \* what the latest loop iteration did and printed: the branch
                \* it took, the commands of the "[done] ..." notices, the
                \* message written to stderr, the n of the "[n] pid" line
                \* (-1 when none), for empty lines the number of empty
                \* lines read in a row, modulo 2, and the number of messages
                \* the interrupt handler has printed since, modulo 2

vars ==
    <<jobs, aliases, proc, pc, wait_pid, job_id, untracked, cwd, home, status,
      disk, child, ev>>

\* no child process has had this pid
NoChild == [pc |-> "none"]

NoEv ==
    [kind |-> "init", notices |-> <<>>, err |-> "", started |-> -1, rep |-> 0,
     sig |-> 0]

Init ==
    /\ jobs = <<>>
    /\ aliases = <<>>
    /\ proc = [p \in Pids |-> "free"]
    /\ pc = "prompt"
    /\ wait_pid = 0
    /\ job_id = -1
    /\ untracked = {}
    /\ cwd = HomeDir
    /\ home = HomeDir
    /\ status = -1
    /\ disk = [p \in Files |-> <<>>]
    /\ child = [p \in Pids |-> NoChild]
    /\ ev = NoEv

\* return 0; after the loop
main_return == 0

Zombies == {p \in Pids : proc[p] = "zombie"}

----------------------------------------------------------------------------
(* The built-ins of the dispatch chain.  Each takes the state after the poll *)
(* and gives the iteration's result: the tables, the next pc, and what was   *)
(* printed.                                                                  *)

Result(kind, J, A, next, err) ==
    [kind |-> kind, jobs |-> J, aliases |-> A, pc |-> next, err |-> err,
     job_id |-> -1, cwd |-> cwd]

\* char expanded_path[1024]
PATH_SIZE == 1024

\* expand_tilde(path, expanded, expanded_size): rc is its return value, out
\* what it leaves in expanded, err what it prints
expand_tilde(path, size) ==
    IF Head(path) = "~"
    THEN IF home = NULL \/ home = <<>>
         THEN [rc |-> -1, out |-> <<>>,
               err |-> "cd: HOME environment variable not set"]
         ELSE IF Len(path) = 1
         THEN [rc |-> 0, out |-> strncpy_z(home, size), err |-> ""]
         ELSE IF path[2] = "/"
         THEN [rc |-> 0, out |-> strncpy_z(home \o Tail(path), size), err |-> ""]
         ELSE [rc |-> -1, out |-> <<>>, err |-> "cd: ~username not supported"]
    ELSE [rc |-> 0, out |-> strncpy_z(path, size), err |-> ""]

\* chdir(path) from the directory c: the directory the process is in
\* afterwards, and whether the call succeeded
chdir(c, path) ==
    LET abs == IF Head(path) = "/" THEN path
               ELSE IF c = <<"/">> THEN c \o path
               ELSE c \o <<"/">> \o path
    IN  IF abs \in Dirs THEN [ok |-> TRUE, cwd |-> abs]
        ELSE [ok |-> FALSE, cwd |-> c]

\* cd that says nothing when chdir fails
builtin_cd_silent(J, A, args) ==
    LET target == IF Len(args) >= 2 THEN args[2] ELSE <<"~">>
        e == expand_tilde(target, PATH_SIZE)
        r == chdir(cwd, e.out)
    IN  IF e.rc # 0 THEN Result("cd", J, A, "prompt", e.err)
        ELSE [Result("cd", J, A, "prompt", "") EXCEPT !.cwd = r.cwd]

\* if (strcmp(args[0], "cd") == 0) { ... }
builtin_cd(J, A, args) ==
    LET target == IF Len(args) >= 2 THEN args[2] ELSE <<"~">>
        e == expand_tilde(target, PATH_SIZE)
        r == chdir(cwd, e.out)
    IN  IF e.rc # 0 THEN Result("cd", J, A, "prompt", e.err)
        ELSE IF r.ok THEN [Result("cd", J, A, "prompt", "") EXCEPT !.cwd = r.cwd]
        ELSE Result("cd", J, A, "prompt", "cd")

\* if (strcmp(args[0], "fg") == 0 && args[1]) { ... }
builtin_fg(J, A, args) ==
    LET id == atoi(args[2]) IN
    IF id >= 0 /\ id < Len(J)
    THEN [Result("fg_wait", J, A, "wait_job", "") EXCEPT !.job_id = id]
    ELSE Result("fg_invalid", J, A, "prompt", "Invalid job ID")

\* if (strcmp(args[0], "alias") == 0) { ... }
builtin_alias(J, A, args) ==
    IF Len(args) < 2 THEN Result("alias_list", J, A, "prompt", "")
    ELSE LET eq == strchr(args[2], "=") IN
         IF eq > 1
         THEN LET name == SubSeq(args[2], 1, eq - 1)
                  raw == SubSeq(args[2], eq + 1, Len(args[2]))
                  quoted == raw # <<>> /\ Head(raw) \in {"'", "\""}
                  v1 == IF quoted THEN Tail(raw) ELSE raw
                  value == IF quoted /\ v1 # <<>> /\ v1[Len(v1)] \in {"'", "\""}
                           THEN SubSeq(v1, 1, Len(v1) - 1) ELSE v1
                  r == add_alias(A, name, value)
              IN  Result("alias_set", J, r.aliases, "prompt", r.err)
         ELSE Result("alias_usage", J, A, "prompt", "Usage: alias name='value'")

\* if (strcmp(args[0], "unalias") == 0) { ... }
builtin_unalias(J, A, args) ==
    IF Len(args) < 2
    THEN Result("unalias_usage", J, A, "prompt", "Usage: unalias name")
    ELSE LET r == remove_alias(A, args[2]) IN
         Result("unalias", J, r.aliases, "prompt", r.err)

\* The for loop of expand_globs from args[i] on.  out is expanded_args so
\* far: each entry is the string its pointer refers to and whether that string
\* lies in the storage of results (glob) or in the line (not glob).  pathv is
\* results.gl_pathv.
RECURSIVE GlobFrom(_, _, _, _)
GlobFrom(args, i, out, pathv) ==
    IF i > Len(args) THEN [argv |-> out, pathv |-> pathv]
    ELSE IF strchr(args[i], "*") # 0 \/ strchr(args[i], "?") # 0
    THEN LET g == glob(cwd, home, args[i], Len(out) > 0, pathv) IN
         IF g.rc # 0
         THEN GlobFrom(args, i + 1,
                       Append(out, [str |-> args[i], glob |-> FALSE]), g.pathv)
         ELSE GlobFrom(args, i + 1,
                       out \o [j \in 1..Len(g.pathv) |->
                                 [str |-> g.pathv[j], glob |-> TRUE]],
                       g.pathv)
    ELSE GlobFrom(args, i + 1,
                  Append(out, [str |-> args[i], glob |-> FALSE]), pathv)

\* expand_globs that leaves out a pattern glob finds no match for
RECURSIVE GlobFrom_dropfail(_, _, _, _)
GlobFrom_dropfail(args, i, out, pathv) ==
    IF i > Len(args) THEN [argv |-> out, pathv |-> pathv]
    ELSE IF strchr(args[i], "*") # 0 \/ strchr(args[i], "?") # 0
    THEN LET g == glob(cwd, home, args[i], Len(out) > 0, pathv) IN
         IF g.rc # 0
         THEN GlobFrom_dropfail(args, i + 1, out, g.pathv)
         ELSE GlobFrom_dropfail(args, i + 1,
                       out \o [j \in 1..Len(g.pathv) |->
                                 [str |-> g.pathv[j], glob |-> TRUE]],
                       g.pathv)
    ELSE GlobFrom_dropfail(args, i + 1,
                  Append(out, [str |-> args[i], glob |-> FALSE]), pathv)

expand_globs_dropfail(args) == GlobFrom_dropfail(args, 1, <<>>, <<>>)

\* expand_globs(args, expanded_args, &expanded_count): the vector it leaves in
\* expanded_args, and pathv, the storage it hands to globfree before it
\* returns (when results.gl_pathv != NULL)
expand_globs(args) == GlobFrom(args, 1, <<>>, <<>>)

\* The chain of if (strcmp(args[0], ...) == 0) tests of main, in its order.
\* "launch" means no test matched: the line goes on to expand_globs and fork.
Dispatch(J, A, args) ==
    IF args[1] = w_exit THEN Result("exit", J, A, "done", "")
    ELSE IF args[1] = w_cd THEN builtin_cd(J, A, args)
    ELSE IF args[1] = w_pwd THEN Result("pwd", J, A, "prompt", "")
    ELSE IF args[1] = w_jobs THEN Result("jobs", J, A, "prompt", "")
    ELSE IF args[1] = w_fg /\ Len(args) >= 2 THEN builtin_fg(J, A, args)
    ELSE IF args[1] = w_alias THEN builtin_alias(J, A, args)
    ELSE IF args[1] = w_unalias THEN builtin_unalias(J, A, args)
    ELSE IF args[1] = w_help THEN Result("help", J, A, "prompt", "")
    ELSE IF args[1] = w_path THEN Result("path", J, A, "prompt", "")
    ELSE IF args[1] = w_which THEN Result("which", J, A, "prompt", "")
    ELSE IF args[1] = w_grep THEN Result("grep", J, A, "prompt", "")
    ELSE Result("launch", J, A, "prompt", "")

----------------------------------------------------------------------------
(* One iteration of the while (1) loop of main, for a line read at the      *)
(* prompt.  The iteration runs from readline to the next readline, or to    *)
(* the blocking waitpid it stops in.                                        *)

\* check_background_jobs() at the head of the iteration
Polled == check_background_jobs(jobs, Zombies)
AfterPoll(po) == [p \in Pids |-> IF p \in po.reaped THEN "free" ELSE proc[p]]

\* expand_alias(line, expanded_line, ...); parse_command(expanded_line, ...)
Parsed(line) == parse_command(expand_alias(aliases, line))

\* what to do with the parsed line: nothing when it has no command
\* (if (!args[0]) continue;), else what the dispatch chain says
Decide(J, A, args) ==
    IF args = <<>> THEN Result("nocmd", J, A, "prompt", "")
    ELSE Dispatch(J, A, args)

EvOf(kind, po, err, started) ==
    [kind |-> kind, notices |-> po.notices, err |-> err, started |-> started,
     rep |-> 0, sig |-> 0]

\* if (!line || !*line) { free(line); continue; }
EmptyLine ==
    /\ pc = "prompt"
    /\ ev' = [NoEv EXCEPT !.kind = "empty", !.rep = 1 - ev.rep]
    /\ UNCHANGED <<jobs, aliases, proc, pc, wait_pid, job_id, untracked, cwd,
                   home, disk, child, status>>

\* a line with no command, or one a built-in handles
Builtin(line) ==
    /\ pc = "prompt"
    /\ line # <<>>
    /\ \E pr \in {Parsed(line)}, po \in {Polled} :
       \E d \in {Decide(po.jobs, aliases, pr.args)} :
           /\ d.kind # "launch"
           /\ jobs' = d.jobs
           /\ aliases' = d.aliases
           /\ proc' = AfterPoll(po)
           /\ pc' = d.pc
           /\ job_id' = d.job_id
           /\ wait_pid' = IF d.pc = "wait_job" THEN d.jobs[d.job_id + 1].pid ELSE 0
           /\ ev' = EvOf(d.kind, po, d.err, -1)
           /\ cwd' = d.cwd
           /\ status' = IF d.pc = "done" THEN main_return ELSE status
           /\ UNCHANGED <<untracked, home, disk, child>>

\* an external command: fork() returns f, the lowest free pid, in the parent
\*   printf("[%d] %d\n", job_count, pid); add_job(pid, line);   or
\*   waitpid(pid, &status, 0);
Parent(line, f) ==
    /\ pc = "prompt"
    /\ line # <<>>
    /\ \E pr \in {Parsed(line)}, po \in {Polled} :
           /\ Decide(po.jobs, aliases, pr.args).kind = "launch"
           /\ AfterPoll(po)[f] = "free"
           /\ \A q \in 1..(f - 1) : AfterPoll(po)[q] # "free"
           /\ proc' = [AfterPoll(po) EXCEPT ![f] = "running"]
           /\ aliases' = aliases
           /\ UNCHANGED <<cwd, home, disk, status>>
           /\ job_id' = -1
           /\ IF pr.background = 1
              THEN /\ jobs' = add_job(po.jobs, f, line)
                   /\ pc' = "prompt"
                   /\ wait_pid' = 0
                   /\ untracked' = IF \E k \in 1..Len(jobs') : jobs'[k].pid = f
                                   THEN untracked ELSE untracked \cup {f}
                   /\ ev' = EvOf("launch_bg", po, "", Len(po.jobs))
              ELSE /\ jobs' = po.jobs
                   /\ pc' = "wait_child"
                   /\ wait_pid' = f
                   /\ untracked' = untracked
                   /\ ev' = EvOf("launch_fg", po, "", -1)

\* the launch seen from the shell: what the child does is not followed, it
\* is a process that runs until it exits (ChildExit)
Launch(line, f) ==
    /\ Parent(line, f)
    /\ child' = child

\* a failed fork taken for the parent's branch: the pid is registered, or waited for
ForkFail_asparent(line) ==
    /\ pc = "prompt"
    /\ line # <<>>
    /\ \E pr \in {Parsed(line)}, po \in {Polled} :
           /\ Decide(po.jobs, aliases, pr.args).kind = "launch"
           /\ proc' = AfterPoll(po)
           /\ ev' = EvOf("fork_failed", po, "fork", -1)
           /\ IF pr.background = 1
              THEN /\ jobs' = add_job(po.jobs, -1, line)
                   /\ UNCHANGED <<pc, wait_pid>>
              ELSE /\ jobs' = po.jobs
                   /\ pc' = "wait_child"
                   /\ wait_pid' = -1
           /\ UNCHANGED <<aliases, job_id, untracked, cwd, home, disk, child,
                          status>>

\* a failed fork that ends the shell
ForkFail_fatal(line) ==
    /\ pc = "prompt"
    /\ line # <<>>
    /\ \E pr \in {Parsed(line)}, po \in {Polled} :
           /\ Decide(po.jobs, aliases, pr.args).kind = "launch"
           /\ jobs' = po.jobs
           /\ proc' = AfterPoll(po)
           /\ pc' = "done"
           /\ status' = 1
           /\ ev' = EvOf("fork_failed", po, "fork", -1)
           /\ UNCHANGED <<aliases, wait_pid, job_id, untracked, cwd, home,
                          disk, child>>

\* fork() returns -1: perror("fork")
ForkFail(line) ==
    /\ pc = "prompt"
    /\ line # <<>>
    /\ \E pr \in {Parsed(line)}, po \in {Polled} :
           /\ Decide(po.jobs, aliases, pr.args).kind = "launch"
           /\ jobs' = po.jobs
           /\ proc' = AfterPoll(po)
           /\ ev' = EvOf("fork_failed", po, "fork", -1)
           /\ UNCHANGED <<aliases, pc, wait_pid, job_id, untracked, cwd,
                          home, disk, child, status>>

\* readline returns NULL (end of input): break
Eof ==
    /\ pc = "prompt"
    /\ pc' = "done"
    /\ status' = main_return
    /\ ev' = [NoEv EXCEPT !.kind = "eof"]
    /\ UNCHANGED <<jobs, aliases, proc, wait_pid, job_id, untracked, cwd,
                   home, disk, child>>

\* a foreground wait that returns when any child has exited: waitpid(-1, ...)
ChildReturn_any ==
    /\ pc = "wait_child"
    /\ \E p \in Pids :
          /\ proc[p] = "zombie"
          /\ proc' = [proc EXCEPT ![p] = "free"]
    /\ pc' = "prompt"
    /\ wait_pid' = 0
    /\ ev' = [NoEv EXCEPT !.kind = "child_done"]
    /\ UNCHANGED <<jobs, aliases, job_id, untracked, cwd, home, disk, child,
                   status>>

\* waitpid(pid, &status, 0) of a foreground command returns: the child has exited
ChildReturn ==
    /\ pc = "wait_child"
    /\ proc[wait_pid] = "zombie"
    /\ proc' = [proc EXCEPT ![wait_pid] = "free"]
    /\ pc' = "prompt"
    /\ wait_pid' = 0
    /\ ev' = [NoEv EXCEPT !.kind = "child_done"]
    /\ UNCHANGED <<jobs, aliases, job_id, untracked, cwd, home, disk, child,
                   status>>

\* fg that does not wait for the child to exit
FgReturn_nowait ==
    /\ pc = "wait_job"
    /\ proc' = [proc EXCEPT ![wait_pid] = IF @ = "zombie" THEN "free" ELSE @]
    /\ jobs' = ShiftOut(jobs, job_id + 1)
    /\ pc' = "prompt"
    /\ wait_pid' = 0
    /\ job_id' = -1
    /\ ev' = [NoEv EXCEPT !.kind = "fg_done"]
    /\ UNCHANGED <<aliases, untracked, cwd, home, disk, child, status>>

\* fg that prints a completion notice for the job it has waited for
FgReturn_notice ==
    /\ pc = "wait_job"
    /\ proc[wait_pid] = "zombie"
    /\ proc' = [proc EXCEPT ![wait_pid] = "free"]
    /\ jobs' = ShiftOut(jobs, job_id + 1)
    /\ pc' = "prompt"
    /\ wait_pid' = 0
    /\ job_id' = -1
    /\ ev' = [NoEv EXCEPT !.kind = "fg_done",
                          !.notices = <<jobs[job_id + 1].command>>]
    /\ UNCHANGED <<aliases, untracked, cwd, home, disk, child, status>>

\* waitpid(jobs[job_id].pid, &status, 0) of fg returns; the entry is shifted out
FgReturn ==
    /\ pc = "wait_job"
    /\ proc[wait_pid] = "zombie"
    /\ proc' = [proc EXCEPT ![wait_pid] = "free"]
    /\ jobs' = ShiftOut(jobs, job_id + 1)
    /\ pc' = "prompt"
    /\ wait_pid' = 0
    /\ job_id' = -1
    /\ ev' = [NoEv EXCEPT !.kind = "fg_done"]
    /\ UNCHANGED <<aliases, untracked, cwd, home, disk, child, status>>

\* a running child terminates (the kernel keeps it as a zombie until waited for)
ChildExit(p) ==
    /\ proc[p] = "running"
    /\ proc' = [proc EXCEPT ![p] = "zombie"]
    /\ UNCHANGED <<jobs, aliases, pc, wait_pid, job_id, untracked, cwd, home,
                   disk, child, status, ev>>

\* an interrupt handler that ends the shell, as the default disposition does
sigint_handler_exit ==
    /\ pc # "done"
    /\ pc' = "done"
    /\ status' = 130
    /\ ev' = [ev EXCEPT !.sig = 1 - @]
    /\ UNCHANGED <<jobs, aliases, proc, wait_pid, job_id, untracked, cwd,
                   home, disk, child>>

\* SIGINT is delivered to the shell, where main has installed sigint_handler:
\* the handler prints "Use 'exit' to quit." and the prompt, and returns; the
\* read of fgets or the waitpid it interrupted is resumed
sigint_handler ==
    /\ pc # "done"
    /\ ev' = [ev EXCEPT !.sig = 1 - @]
    /\ UNCHANGED <<jobs, aliases, proc, pc, wait_pid, job_id, untracked, cwd,
                   home, disk, child, status>>

\* the loop reading lines of JobLines, with children exiting at any time
Next ==
    \/ EmptyLine
    \/ \E line \in JobLines : Builtin(line)
    \/ \E line \in JobLines, f \in Pids : Launch(line, f)
    \/ \E line \in JobLines : ForkFail(line)
    \/ Eof
    \/ ChildReturn
    \/ FgReturn
    \/ \E p \in Pids : ChildExit(p)

Spec == Init /\ [][Next]_vars

\* the same loop with interrupts arriving at any time
NextSig ==
    \/ Next
    \/ sigint_handler

SpecSig == Init /\ [][NextSig]_vars

\* The loop under the assumptions of the liveness claims: input keeps arriving
\* while the loop is at the prompt, every child exits in the end, and a
\* blocking waitpid returns once its child has exited.
ReadStep ==
    \/ EmptyLine
    \/ \E line \in JobLines :
          Builtin(line) \/ (\E f \in Pids : Launch(line, f)) \/ ForkFail(line)

FairSpec ==
    /\ Spec
    /\ WF_vars(ReadStep)
    /\ WF_vars(ChildReturn)
    /\ WF_vars(FgReturn)
    /\ \A p \in Pids : WF_vars(ChildExit(p))

\* the loop reading lines of AliasLines.  No line of AliasLines holds "&", so
\* the job table stays empty and fg never waits: FgReturn is never enabled and
\* is left out.
NextAlias ==
    \/ EmptyLine
    \/ \E line \in AliasLines : Builtin(line)
    \/ \E line \in AliasLines, f \in Pids : Launch(line, f)
    \/ \E line \in AliasLines : ForkFail(line)
    \/ Eof
    \/ ChildReturn
    \/ \E p \in Pids : ChildExit(p)

SpecAlias == Init /\ [][NextAlias]_vars

\* the loop reading lines of CdLines, started with any of the values of HOME.
\* No line of CdLines holds "&", so FgReturn is left out as in NextAlias.
InitCd ==
    /\ jobs = <<>>
    /\ aliases = <<>>
    /\ proc = [p \in Pids |-> "free"]
    /\ pc = "prompt"
    /\ wait_pid = 0
    /\ job_id = -1
    /\ untracked = {}
    /\ cwd \in Dirs
    /\ home \in HomeValues
    /\ status = -1
    /\ disk = [p \in Files |-> <<>>]
    /\ child = [p \in Pids |-> NoChild]
    /\ ev = NoEv

NextCd ==
    \/ EmptyLine
    \/ \E line \in CdLines : Builtin(line)
    \/ \E line \in CdLines, f \in Pids : Launch(line, f)
    \/ \E line \in CdLines : ForkFail(line)
    \/ Eof
    \/ ChildReturn
    \/ \E p \in Pids : ChildExit(p)

SpecCd == InitCd /\ [][NextCd]_vars

\* the loop reading lines of ErrLines
NextErr ==
    \/ EmptyLine
    \/ \E line \in ErrLines : Builtin(line)
    \/ \E line \in ErrLines, f \in Pids : Launch(line, f)
    \/ \E line \in ErrLines : ForkFail(line)
    \/ Eof
    \/ ChildReturn
    \/ FgReturn
    \/ \E p \in Pids : ChildExit(p)

SpecErr == Init /\ [][NextErr]_vars

\* Input lines about fg: a background and a foreground command, fg with a
\* decimal index, and fg with an argument that is no decimal numeral (a
\* word, the %1 of other shells, a digit followed by a letter)
BadIndexes == { <<"a">>, <<"%", "1">>, <<"1", "x">> }
FgLines ==
    { <<"x">>, Join(<< <<"x">>, <<"&">> >>),
      Join(<<w_fg, <<"0">> >>), Join(<<w_fg, <<"1">> >>) }
    \cup { Join(<<w_fg, b>>) : b \in BadIndexes }

\* the loop reading lines of FgLines
NextFg ==
    \/ EmptyLine
    \/ \E line \in FgLines : Builtin(line)
    \/ \E line \in FgLines, f \in Pids : Launch(line, f)
    \/ \E line \in FgLines : ForkFail(line)
    \/ Eof
    \/ ChildReturn
    \/ FgReturn
    \/ \E p \in Pids : ChildExit(p)

SpecFg == Init /\ [][NextFg]_vars

----------------------------------------------------------------------------
(* One line on its way through the loop body, one call at a time: from the  *)
(* line in hand (read, not empty, poll done) through expand_alias,          *)
(* parse_command, the dispatch chain, expand_globs and fork to the child's  *)
(* redirections and execvp.  ev holds the values the calls have produced.   *)

\* the line is in hand, with an alias table earlier lines have built
InitLine ==
    /\ jobs = <<>>
    /\ proc = [p \in Pids |-> "free"]
    /\ wait_pid = 0
    /\ job_id = -1
    /\ untracked = {}
    /\ cwd = HomeDir
    /\ home = HomeDir
    /\ status = -1
    /\ disk = [p \in Files |-> <<>>]
    /\ child = [p \in Pids |-> NoChild]
    /\ pc = "read"
    /\ \E in \in LineInputs :
          /\ aliases = in.aliases
          /\ ev = [kind |-> "read", line |-> in.line]

\* expand_alias(line, expanded_line, sizeof(expanded_line));
ExpandStep ==
    /\ pc = "read"
    /\ pc' = "expanded"
    /\ ev' = [kind |-> "expanded", line |-> ev.line,
              out |-> expand_alias(aliases, ev.line)]
    /\ UNCHANGED <<jobs, aliases, proc, wait_pid, job_id, untracked, cwd,
                   home, disk, child, status>>

\* parse_command(expanded_line, args, &background, &infile, &outfile, &append);
\* if (!args[0]) continue;
ParseStep ==
    /\ pc = "expanded"
    /\ \E pr \in {parse_command(ev.out)} :
          /\ pc' = IF pr.args = <<>> THEN "nocmd" ELSE "parsed"
          /\ ev' = [kind |-> "parsed", line |-> ev.line, out |-> ev.out,
                    parsed |-> pr]
    /\ UNCHANGED <<jobs, aliases, proc, wait_pid, job_id, untracked, cwd,
                   home, disk, child, status>>

\* a built-in takes the line
BuiltinStep ==
    /\ pc = "parsed"
    /\ \E d \in {Dispatch(jobs, aliases, ev.parsed.args)} :
          /\ d.kind # "launch"
          /\ pc' = IF d.pc = "done" THEN "done" ELSE "builtin"
          /\ aliases' = d.aliases
          /\ cwd' = d.cwd
          /\ ev' = [kind |-> d.kind, line |-> ev.line, out |-> ev.out,
                    parsed |-> ev.parsed, err |-> d.err]
          /\ status' = IF d.pc = "done" THEN main_return ELSE status
    /\ UNCHANGED <<jobs, proc, wait_pid, job_id, untracked, home, disk, child>>

\* no built-in takes it: expand_globs(args, expanded, &expanded_count);
GlobStep ==
    /\ pc = "parsed"
    /\ Dispatch(jobs, aliases, ev.parsed.args).kind = "launch"
    /\ pc' = "globbed"
    /\ ev' = [kind |-> "globbed", line |-> ev.line, out |-> ev.out,
              parsed |-> ev.parsed, expanded |-> expand_globs(ev.parsed.args)]
    /\ UNCHANGED <<jobs, aliases, proc, wait_pid, job_id, untracked, cwd,
                   home, disk, child, status>>

\* the path open() and execvp() resolve in directory c
AbsPath(c, path) ==
    IF Head(path) = "/" THEN path
    ELSE IF c = <<"/">> THEN c \o path
    ELSE c \o <<"/">> \o path

\* what a string reads as once its storage has been released and reused
Garbage == <<"?", "?">>

\* pid = fork(); in the child: open and dup2 for infile and outfile, then
\* execvp(expanded[0], expanded).  The child record holds what its stdin and
\* stdout are (NULL: those of the shell), the argument vector the program
\* receives, and what perror printed.  The strings glob produced were
\* released by globfree inside expand_globs: they read as they were, or as
\* garbage.
ExecStep ==
    /\ pc = "globbed"
    /\ pc' = "exec"
    /\ proc' = [proc EXCEPT ![1] = "running"]
    /\ \E intact \in IF ev.expanded.pathv = <<>> THEN {TRUE} ELSE BOOLEAN :
       LET pr == ev.parsed
           a == ev.expanded.argv
           in_ok == pr.infile = NULL \/ AbsPath(cwd, pr.infile) \in Files
           out_ok == pr.outfile = NULL \/ AbsPath(cwd, pr.outfile) \notin Dirs
           argv == [k \in 1..Len(a) |->
                      IF a[k].glob /\ ~intact THEN Garbage ELSE a[k].str]
       IN  ev' = [kind |-> "exec", line |-> ev.line, out |-> ev.out,
                  parsed |-> pr, expanded |-> ev.expanded,
                  child |->
                    IF ~in_ok
                    THEN [stdin |-> NULL, stdout |-> NULL, append |-> 0,
                          argv |-> <<>>, err |-> "input"]
                    ELSE IF ~out_ok
                    THEN [stdin |-> pr.infile, stdout |-> NULL, append |-> 0,
                          argv |-> <<>>, err |-> "output"]
                    ELSE [stdin |-> pr.infile, stdout |-> pr.outfile,
                          append |-> pr.append, argv |-> argv, err |-> ""]]
    /\ UNCHANGED <<jobs, aliases, wait_pid, job_id, untracked, cwd, home,
                   disk, child, status>>

NextLine ==
    \/ ExpandStep
    \/ ParseStep
    \/ BuiltinStep
    \/ GlobStep
    \/ ExecStep

SpecLine == InitLine /\ [][NextLine]_vars

\* the same steps for a line of TokLines, with no alias set
InitTok ==
    /\ jobs = <<>>
    /\ aliases = <<>>
    /\ proc = [p \in Pids |-> "free"]
    /\ wait_pid = 0
    /\ job_id = -1
    /\ untracked = {}
    /\ cwd = HomeDir
    /\ home = HomeDir
    /\ status = -1
    /\ disk = [p \in Files |-> <<>>]
    /\ child = [p \in Pids |-> NoChild]
    /\ pc = "read"
    /\ \E line \in TokLines : ev = [kind |-> "read", line |-> line]

NextTok ==
    \/ ExpandStep
    \/ ParseStep

SpecTok == InitTok /\ [][NextTok]_vars

\* #define MAX_TOKENS 128: the capacity of args[] and of expanded[] in
\* main, scaled down.  The 1024 characters of buffer hold 512 tokens, four
\* times the capacity.
MAX_TOKENS == 8

\* lines of up to this many tokens are typed
MaxTyped == 10

\* k times the one-character token c, joined by single spaces
Repeat(c, k) == [j \in 1..(2 * k - 1) |-> IF j % 2 = 1 THEN c ELSE SP]

\* the lines "x c ... c": a command and up to MaxTyped - 1 equal tokens,
\* plain words or wildcards that match files
ArgChars == { "x", "a", "*", "?" }
ArgLines ==
    { <<"x">> } \cup
    { <<"x", SP>> \o Repeat(c, k) : c \in ArgChars, k \in 1..(MaxTyped - 1) }

\* the same steps for a line of ArgLines, with no alias set
InitArgs ==
    /\ jobs = <<>>
    /\ aliases = <<>>
    /\ proc = [p \in Pids |-> "free"]
    /\ wait_pid = 0
    /\ job_id = -1
    /\ untracked = {}
    /\ cwd = HomeDir
    /\ home = HomeDir
    /\ status = -1
    /\ disk = [p \in Files |-> <<>>]
    /\ child = [p \in Pids |-> NoChild]
    /\ pc = "read"
    /\ \E line \in ArgLines : ev = [kind |-> "read", line |-> line]

NextArgs ==
    \/ ExpandStep
    \/ ParseStep
    \/ GlobStep

SpecArgs == InitArgs /\ [][NextArgs]_vars

\* The parse of one line after another.  The locals background, append,
\* infile, outfile and args of the loop body live in the same storage in
\* every iteration: slot is what that storage holds when the iteration
\* begins, the values the line before has left there.

\* lines of one to three tokens: words, redirections and &
FreshLines == { Join(t) : t \in SeqsUpTo(ParseTokens, 3) } \ { <<>> }

\* the locals as their initializers and the first lines of parse_command
\* set them: *background = 0; *infile = NULL; *outfile = NULL; *append = 0;
NoCommand ==
    [args |-> <<>>, background |-> 0, infile |-> NULL, outfile |-> NULL,
     append |-> 0]

\* parse_command that starts from what the storage holds
parse_command_carry(slot, input) ==
    ParseFrom(strtok_seq(input), 1, [slot EXCEPT !.args = <<>>])

\* parse_command(expanded_line, args, &background, &infile, &outfile,
\* &append) called with the storage holding slot
parse_command_into(slot, input) ==
    ParseFrom(strtok_seq(input), 1,
              [slot EXCEPT !.args = <<>>, !.background = 0, !.infile = NULL,
                           !.outfile = NULL, !.append = 0])

InitFresh ==
    /\ jobs = <<>>
    /\ aliases = <<>>
    /\ proc = [p \in Pids |-> "free"]
    /\ wait_pid = 0
    /\ job_id = -1
    /\ untracked = {}
    /\ cwd = HomeDir
    /\ home = HomeDir
    /\ status = -1
    /\ disk = [p \in Files |-> <<>>]
    /\ child = [p \in Pids |-> NoChild]
    /\ pc = "prompt"
    /\ ev = [kind |-> "init", line |-> <<>>, slot |-> NoCommand,
             parsed |-> NoCommand]

\* a line is read, alias-expanded and parsed
FreshParse(line) ==
    /\ pc = "prompt"
    /\ pc' = "parsed"
    /\ ev' = [kind |-> "parsed", line |-> line, slot |-> ev.parsed,
              parsed |-> parse_command_into(ev.parsed,
                                            expand_alias(aliases, line))]
    /\ UNCHANGED <<jobs, aliases, proc, wait_pid, job_id, untracked, cwd,
                   home, disk, child, status>>

\* the rest of the iteration: the command is run or skipped, free(line);
\* the storage of the locals keeps what the parse has put there
FreshDone ==
    /\ pc = "parsed"
    /\ pc' = "prompt"
    /\ ev' = [kind |-> "done", line |-> <<>>, slot |-> NoCommand,
              parsed |-> ev.parsed]
    /\ UNCHANGED <<jobs, aliases, proc, wait_pid, job_id, untracked, cwd,
                   home, disk, child, status>>

NextFresh ==
    \/ \E line \in FreshLines : FreshParse(line)
    \/ FreshDone

SpecFresh == InitFresh /\ [][NextFresh]_vars

----------------------------------------------------------------------------
(* The child branch of main (pid == 0), one call at a time, for each child  *)
(* of the shell, and the programs that execvp starts.                       *)

\* the programs execvp finds in PATH
Programs == { <<"e">>, <<"c">> }

\* files take at most this many lines: no line that appends is typed when
\* its file is that long
MaxFileLines == 3

\* the child at the return of fork: a copy of the shell, with its handler
\* for SIGINT, its working directory, its stdin and stdout (NULL: those of
\* the shell) and the parsed command
Forked(pr, argv, c) ==
    [pc |-> "forked", sigint |-> "sigint_handler", cwd |-> c, argv |-> argv,
     infile |-> pr.infile, outfile |-> pr.outfile, append |-> pr.append,
     stdin |-> NULL, stdout |-> NULL, err |-> "", code |-> -1, out |-> <<>>]

\* pid = fork() returns f in the shell and 0 in the child
Fork(line, f) ==
    /\ Parent(line, f)
    /\ LET pr == Parsed(line)
           a == expand_globs(pr.args).argv
       IN  child' = [child EXCEPT
                       ![f] = Forked(pr, [k \in 1..Len(a) |-> a[k].str], cwd)]

\* a child that has ended: the kernel has released its files and its
\* memory, and keeps its exit status for the waitpid of the shell
Ended(c, code, err, lines) ==
    [pc |-> "exited", sigint |-> c.sigint, cwd |-> <<>>, argv |-> <<>>,
     infile |-> NULL, outfile |-> NULL, append |-> 0, stdin |-> NULL,
     stdout |-> NULL, err |-> err, code |-> code, out |-> lines]

\* exit(code) in the child, after perror(err) when err is not empty
Exit(p, code, err) ==
    /\ child' = [child EXCEPT ![p] = Ended(child[p], code, err, <<>>)]
    /\ proc' = [proc EXCEPT ![p] = "zombie"]

\* a child that keeps the handler of the shell
ChildReset_keep(p) ==
    /\ proc[p] = "running"
    /\ child[p].pc = "forked"
    /\ child' = [child EXCEPT ![p].pc = "reset"]
    /\ UNCHANGED <<jobs, aliases, proc, pc, wait_pid, job_id, untracked, cwd,
                   home, status, disk, ev>>

\* signal(SIGINT, SIG_DFL);
ChildReset(p) ==
    /\ proc[p] = "running"
    /\ child[p].pc = "forked"
    /\ child' = [child EXCEPT ![p].pc = "reset", ![p].sigint = "SIG_DFL"]
    /\ UNCHANGED <<jobs, aliases, proc, pc, wait_pid, job_id, untracked, cwd,
                   home, status, disk, ev>>

\* open(path, O_RDONLY): a file or a directory that exists
open_rdonly(d, path) == path \in DOMAIN d \/ path \in Dirs

\* a child that reports the failed open of infile and goes on
ChildInput_goeson(p) ==
    /\ proc[p] = "running"
    /\ child[p].pc = "reset"
    /\ LET c == child[p]
           path == IF c.infile = NULL THEN NULL ELSE AbsPath(c.cwd, c.infile)
       IN  IF c.infile = NULL
           THEN child' = [child EXCEPT ![p].pc = "in_done"]
           ELSE IF open_rdonly(disk, path)
           THEN child' = [child EXCEPT ![p].pc = "in_done", ![p].stdin = path]
           ELSE child' = [child EXCEPT ![p].pc = "in_done", ![p].err = "input"]
    /\ UNCHANGED <<jobs, aliases, proc, pc, wait_pid, job_id, untracked, cwd,
                   home, status, disk, ev>>

\* if (infile) { fd = open(infile, O_RDONLY);
\*               if (fd == -1) { perror("input"); exit(1); } dup2; close }
ChildInput(p) ==
    /\ proc[p] = "running"
    /\ child[p].pc = "reset"
    /\ LET c == child[p]
           path == IF c.infile = NULL THEN NULL ELSE AbsPath(c.cwd, c.infile)
       IN  IF c.infile = NULL
           THEN /\ child' = [child EXCEPT ![p].pc = "in_done"]
                /\ proc' = proc
           ELSE IF open_rdonly(disk, path)
           THEN /\ child' = [child EXCEPT ![p].pc = "in_done", ![p].stdin = path]
                /\ proc' = proc
           ELSE Exit(p, 1, "input")
    /\ UNCHANGED <<jobs, aliases, pc, wait_pid, job_id, untracked, cwd, home,
                   status, disk, ev>>

\* open that truncates whether or not append is set
open_wronly_trunc(d, path, append) ==
    IF path \in Dirs THEN [fd |-> -1, disk |-> d]
    ELSE [fd |-> 1,
          disk |-> [q \in DOMAIN d \cup {path} |->
                      IF q = path THEN <<>> ELSE d[q]]]

\* open(path, O_WRONLY | O_CREAT | (append ? O_APPEND : O_TRUNC), 0644):
\* fails on a directory; creates the file when there is none; O_TRUNC
\* empties it
open_wronly(d, path, append) ==
    IF path \in Dirs THEN [fd |-> -1, disk |-> d]
    ELSE [fd |-> 1,
          disk |-> [q \in DOMAIN d \cup {path} |->
                      IF q = path
                      THEN IF append = 1 /\ path \in DOMAIN d THEN d[path]
                           ELSE <<>>
                      ELSE d[q]]]

\* if (outfile) { fd = open(outfile, flags, 0644);
\*                if (fd == -1) { perror("output"); exit(1); } dup2; close }
ChildOutput(p) ==
    /\ proc[p] = "running"
    /\ child[p].pc = "in_done"
    /\ LET c == child[p]
           path == IF c.outfile = NULL THEN NULL ELSE AbsPath(c.cwd, c.outfile)
           o == open_wronly(disk, path, c.append)
       IN  IF c.outfile = NULL
           THEN /\ child' = [child EXCEPT ![p].pc = "out_done"]
                /\ UNCHANGED <<proc, disk>>
           ELSE IF o.fd # -1
           THEN /\ child' = [child EXCEPT ![p].pc = "out_done",
                                          ![p].stdout = path]
                /\ disk' = o.disk
                /\ proc' = proc
           ELSE /\ Exit(p, 1, "output")
                /\ disk' = disk
    /\ UNCHANGED <<jobs, aliases, pc, wait_pid, job_id, untracked, cwd, home,
                   status, ev>>

\* if (execvp(expanded[0], expanded) == -1) { perror("execvp"); exit(1); }
\* When execvp succeeds the program runs in the child, with the stdin, the
\* stdout and the SIGINT disposition the child has.
ChildExec(p) ==
    /\ proc[p] = "running"
    /\ child[p].pc = "out_done"
    /\ IF child[p].argv[1] \in Programs
       THEN /\ child' = [child EXCEPT ![p].pc = "program"]
            /\ proc' = proc
       ELSE Exit(p, 1, "execvp")
    /\ UNCHANGED <<jobs, aliases, pc, wait_pid, job_id, untracked, cwd, home,
                   status, disk, ev>>

\* what the program writes to its stdout: e its arguments as one line, c the
\* lines of its stdin (nothing from a terminal or a directory)
Output(c, d) ==
    IF c.argv[1] = <<"e">> THEN << Join(Tail(c.argv)) >>
    ELSE IF c.stdin # NULL /\ c.stdin \in DOMAIN d THEN d[c.stdin]
    ELSE <<>>

\* write(2) of lines at the start of a file opened with O_TRUNC, or at its
\* end for one opened with O_APPEND
write(d, path, append, lines) ==
    [d EXCEPT ![path] =
        IF append = 1 THEN @ \o lines
        ELSE lines \o SubSeq(@, Len(lines) + 1, Len(@))]

\* the program writes its output and ends with status 0
ProgramRun(p) ==
    /\ proc[p] = "running"
    /\ child[p].pc = "program"
    /\ LET c == child[p]
           lines == Output(c, disk)
       IN  /\ child' = [child EXCEPT ![p] = Ended(c, 0, "", lines)]
           /\ disk' = IF c.stdout = NULL THEN disk
                      ELSE write(disk, c.stdout, c.append, lines)
    /\ proc' = [proc EXCEPT ![p] = "zombie"]
    /\ UNCHANGED <<jobs, aliases, pc, wait_pid, job_id, untracked, cwd, home,
                   status, ev>>

\* a line that appends is typed only while its file has room, and a line
\* with "&" only while the job table is empty
Room(line) ==
    LET pr == Parsed(line)
        path == IF pr.outfile = NULL THEN NULL ELSE AbsPath(cwd, pr.outfile)
    IN  /\ (pr.append = 1 /\ path \in DOMAIN disk)
              => Len(disk[path]) < MaxFileLines
        /\ pr.background = 1 => jobs = <<>>

\* the line is typed and launches a child
Typed(line, f) ==
    /\ Room(line)
    /\ Fork(line, f)

\* the loop reading lines of ChildLines, with every child taking the steps
\* of the child branch at its own pace
NextChild ==
    \/ \E line \in ChildLines : Builtin(line)
    \/ \E line \in ChildLines, f \in Pids : Typed(line, f)
    \/ ChildReturn
    \/ \E p \in Pids : ChildReset(p)
    \/ \E p \in Pids : ChildInput(p)
    \/ \E p \in Pids : ChildOutput(p)
    \/ \E p \in Pids : ChildExec(p)
    \/ \E p \in Pids : ProgramRun(p)

SpecChild == Init /\ [][NextChild]_vars

----------------------------------------------------------------------------
(* The loop one library call at a time, with the interrupt handler running  *)
(* in between and inside the calls.  pc is the routine main is inside       *)
(* ("printf", "strdup", "free"), or the place in the loop body it is at.    *)

\* the routines of the C library main is inside for more than one step
Routines == { "printf", "strdup", "free" }

\* what sigint_handler calls, itself and through generate_prompt
HandlerCalls ==
    { "getcwd", "getenv", "strncmp", "strlen", "snprintf", "printf", "fflush" }

\* the state of the process a routine works on, beside its arguments: the
\* buffer and lock of the stream stdout, or the heap of malloc
Resource(r) ==
    IF r \in {"printf", "fflush"} THEN "stdout"
    ELSE IF r \in {"strdup", "malloc", "free"} THEN "heap"
    ELSE "none"

InitIo ==
    /\ jobs = <<>>
    /\ aliases = <<>>
    /\ proc = [p \in Pids |-> "free"]
    /\ wait_pid = 0
    /\ job_id = -1
    /\ untracked = {}
    /\ cwd = HomeDir
    /\ home = HomeDir
    /\ status = -1
    /\ disk = [p \in Files |-> <<>>]
    /\ child = [p \in Pids |-> NoChild]
    /\ pc = "prompt"
    /\ ev = [kind |-> "io", line |-> <<>>, ret |-> "", i |-> 1,
             reentered |-> {}]

\* main calls a routine and will go on at ret when it returns
Call(routine, ret) ==
    /\ pc' = routine
    /\ ev' = [ev EXCEPT !.ret = ret]

\* generate_prompt(prompt, sizeof(prompt)); printf("%s", prompt);
IoPrompt ==
    /\ pc = "prompt"
    /\ Call("printf", "fgets")
    /\ UNCHANGED <<jobs, aliases, proc, wait_pid, job_id, untracked, cwd, home,
                   status, disk, child>>

\* fgets returns a line that is not empty; line = strdup(buffer);
IoRead(line) ==
    /\ pc = "fgets"
    /\ line # <<>>
    /\ pc' = "strdup"
    /\ ev' = [ev EXCEPT !.line = line, !.ret = "poll", !.i = 1]
    /\ UNCHANGED <<jobs, aliases, proc, wait_pid, job_id, untracked, cwd, home,
                   status, disk, child>>

\* one turn of the for loop of check_background_jobs, at index ev.i:
\* waitpid(jobs[i].pid, &status, WNOHANG), and for a child that has exited
\* printf("[done] %s\n", ...) and the shift
IoPoll ==
    /\ pc = "poll"
    /\ IF ev.i > Len(jobs)
       THEN /\ pc' = "dispatch"
            /\ ev' = [ev EXCEPT !.i = 1]
            /\ UNCHANGED <<jobs, proc>>
       ELSE IF proc[jobs[ev.i].pid] = "zombie"
       THEN /\ proc' = [proc EXCEPT ![jobs[ev.i].pid] = "free"]
            /\ jobs' = ShiftOut(jobs, ev.i)
            /\ Call("printf", "poll")
       ELSE /\ pc' = pc
            /\ ev' = [ev EXCEPT !.i = @ + 1]
            /\ UNCHANGED <<jobs, proc>>
    /\ UNCHANGED <<aliases, wait_pid, job_id, untracked, cwd, home, status,
                   disk, child>>

\* the dispatch of the line: list_jobs and the alias listing call printf
\* (always, or when there is an alias); alias name=value calls add_alias;
\* the background command is forked, and the parent calls printf and add_job
IoDispatch(f) ==
    /\ pc = "dispatch"
    /\ LET pr == Parsed(ev.line)
           d == Decide(jobs, aliases, pr.args)
       IN  IF d.kind = "launch"
           THEN /\ proc[f] = "free"
                /\ \A q \in 1..(f - 1) : proc[q] # "free"
                /\ proc' = [proc EXCEPT ![f] = "running"]
                /\ jobs' = add_job(jobs, f, ev.line)
                /\ untracked' = IF Len(jobs) < MAX_JOBS THEN untracked
                                ELSE untracked \cup {f}
                /\ aliases' = aliases
                /\ Call("printf", "free_line")
           ELSE /\ f = 1
                /\ aliases' = d.aliases
                /\ UNCHANGED <<jobs, proc, untracked>>
                /\ IF d.kind = "jobs" \/ (d.kind = "alias_list" /\ aliases # <<>>)
                   THEN Call("printf", "free_line")
                   ELSE pc' = "free_line" /\ ev' = ev
    /\ UNCHANGED <<wait_pid, job_id, cwd, home, status, disk, child>>

\* free(line); at the end of the iteration
IoFree ==
    /\ pc = "free_line"
    /\ pc' = "free"
    /\ ev' = [ev EXCEPT !.ret = "prompt", !.line = <<>>]
    /\ UNCHANGED <<jobs, aliases, proc, wait_pid, job_id, untracked, cwd, home,
                   status, disk, child>>

\* the routine main is inside returns
IoReturn ==
    /\ pc \in Routines
    /\ pc' = ev.ret
    /\ ev' = ev
    /\ UNCHANGED <<jobs, aliases, proc, wait_pid, job_id, untracked, cwd, home,
                   status, disk, child>>

\* SIGINT arrives while main is inside a routine: sigint_handler runs on
\* the same thread and makes its calls before that routine goes on.  A call
\* that works on the stream or the heap the interrupted routine is working
\* on re-enters it.
sigint_io ==
    /\ pc \in Routines
    /\ ev' = [ev EXCEPT
                !.reentered = @ \cup { Resource(h) : h \in
                    { c \in HandlerCalls : Resource(c) = Resource(pc) } }]
    /\ UNCHANGED <<jobs, aliases, proc, pc, wait_pid, job_id, untracked, cwd,
                   home, status, disk, child>>

NextIo ==
    \/ IoPrompt
    \/ \E line \in IoLines : IoRead(line)
    \/ IoPoll
    \/ \E f \in Pids : IoDispatch(f)
    \/ IoFree
    \/ IoReturn
    \/ sigint_io
    \/ \E p \in Pids : ChildExit(p)

SpecIo == InitIo /\ [][NextIo]_vars

----------------------------------------------------------------------------
(* Properties *)

TablePids == {jobs[k].pid : k \in 1..Len(jobs)}

\* the step is one iteration of the loop for a non-empty line, taking one of
\* the branches in kinds: the loop is at the prompt, no child exits in the
\* step, and the iteration reports that branch
IsChildExit == \E p \in Pids : proc[p] = "running" /\ proc'[p] = "zombie"
NonEmptyKinds ==
    {"nocmd", "exit", "cd", "pwd", "jobs", "fg_wait", "fg_invalid",
     "alias_list", "alias_set", "alias_usage", "unalias", "unalias_usage",
     "help", "path", "which", "grep", "launch_bg", "launch_fg", "fork_failed"}
IterationOf(kinds) == pc = "prompt" /\ ~IsChildExit /\ ev'.kind \in kinds

\* no entry of the table belongs to a process that has exited
NoneExited == \A k \in 1..Len(jobs) : proc[jobs[k].pid] # "zombie"

\* a table without its i-th entry, the others in their order
AllBut(t, i) == [k \in 1..(Len(t) - 1) |-> IF k < i THEN t[k] ELSE t[k + 1]]

\* the line "fg i"
FgLine(i) == Join(<<w_fg, <<Digits[i + 1]>> >>)

\* C1: in every reachable state the number of entries of the job table is
\* between 0 and MAX_JOBS
C1_JobCountWithinCapacity == Len(jobs) \in 0..MAX_JOBS

\* a background command was launched while the table was full, and the table
\* still holds MAX_JOBS entries
C1_Witness ==
    /\ ev.kind = "launch_bg"
    /\ ev.started = MAX_JOBS
    /\ Len(jobs) = MAX_JOBS

\* C2: a background launch while the table holds MAX_JOBS entries reports an
\* error to the user, leaves the table unchanged and starts a child that
\* runs, and that child is never in the table afterwards (so no poll prints a
\* notice for it)
C2_FullTableLaunchReportsError ==
    /\ [][(IterationOf({"launch_bg"}) /\ Len(jobs) = MAX_JOBS /\ NoneExited)
            => /\ ev'.err # ""
               /\ jobs' = jobs
               /\ \E f \in Pids : proc[f] = "free" /\ proc'[f] = "running"
                                               /\ f \in untracked']_vars
    /\ [](\A p \in untracked : p \notin TablePids /\ proc[p] # "free")

\* C3: a line with & brings the loop back to the prompt without waiting, and
\* once the process of a job in the table has exited, it is collected (by a
\* poll, which prints its notice and removes its entry, or by fg) unless the
\* loop ends
C3_BackgroundReturnsAndIsReported ==
    /\ [][IterationOf({"launch_bg"}) => pc' = "prompt"]_vars
    /\ \A p \in Pids :
          (p \in TablePids /\ proc[p] = "zombie")
              ~> (proc[p] # "zombie" \/ pc = "done")

\* C4: the poll at the head of an iteration prints one notice for each job
\* whose process has exited, in table order, and leaves the table with exactly
\* those jobs removed and the others in their order (the same iteration may
\* then append the job it launches); the jobs still running stay running
C4_PollRemovesExactlyExited ==
    [][IterationOf(NonEmptyKinds) =>
         LET kept == SelectSeq(jobs, LAMBDA j : proc[j.pid] # "zombie")
             gone == SelectSeq(jobs, LAMBDA j : proc[j.pid] = "zombie")
         IN  /\ ev'.notices = [k \in 1..Len(gone) |-> gone[k].command]
             /\ Len(jobs') \in {Len(kept), Len(kept) + 1}
             /\ SubSeq(jobs', 1, Len(kept)) = kept
             /\ Len(jobs') = Len(kept) + 1 => ev'.kind = "launch_bg"
             /\ \A k \in 1..Len(kept) : proc'[kept[k].pid] = "running"
             /\ pc' \in {"prompt", "wait_child", "wait_job", "done"}]_vars

\* a poll removed two jobs and kept another
C4_Witness ==
    /\ Len(ev.notices) = 2
    /\ Len(jobs) >= 1
    /\ ev.kind = "jobs"

\* C5: fg i with 0 <= i < n stops the loop in a wait for entry i, the table
\* stays as it is while the loop waits, and the wait ends only when that
\* process has exited, with exactly entry i removed
C5_FgWaitsThenRemoves ==
    /\ [][\A i \in 0..(MAX_JOBS - 1) :
            (Builtin(FgLine(i)) /\ i < Len(Polled.jobs))
            => /\ pc' = "wait_job"
               /\ job_id' = i
               /\ jobs' = Polled.jobs
               /\ wait_pid' = jobs'[i + 1].pid]_vars
    /\ [][pc = "wait_job" =>
            \/ pc' = "wait_job" /\ jobs' = jobs /\ job_id' = job_id
                                /\ wait_pid' = wait_pid
            \/ /\ proc[jobs[job_id + 1].pid] = "zombie"
               /\ pc' = "prompt"
               /\ jobs' = AllBut(jobs, job_id + 1)]_vars

\* fg has returned and two other jobs are still in the table
C5_Witness ==
    /\ ev.kind = "fg_done"
    /\ Len(jobs) = MAX_JOBS - 1

\* C6: fg with an index outside [0, job_count), negative, equal to job_count
\* or larger, prints the invalid-index error, does not wait and leaves the
\* table as the poll left it
FgCases ==
    { [line |-> FgLine(i), outside |-> i >= Len(Polled.jobs)] :
        i \in 0..(MAX_JOBS + 1) }
    \cup { [line |-> Join(<<w_fg, <<"-", "1">> >>), outside |-> TRUE],
           [line |-> Join(<<w_fg, TwoTo32>>), outside |-> TRUE] }

C6_FgInvalidIndex ==
    [][\A c \in FgCases :
         (Builtin(c.line) /\ c.outside)
         => /\ ev'.err = "Invalid job ID"
            /\ pc' = "prompt"
            /\ wait_pid' = 0
            /\ jobs' = Polled.jobs]_vars

\* C7: a line whose first token after alias expansion is one of exit, cd,
\* pwd, jobs, fg, alias, unalias, help creates no child process and attempts
\* no launch, whatever arguments follow
BuiltinNames ==
    {w_exit, w_cd, w_pwd, w_jobs, w_fg, w_alias, w_unalias, w_help}

FirstToken(line) ==
    LET toks == strtok_seq(expand_alias(aliases, line)) IN
    IF toks = <<>> THEN <<>> ELSE toks[1]

\* one iteration of the loop on this line
IterationOn(line) ==
    Builtin(line) \/ (\E f \in Pids : Launch(line, f)) \/ ForkFail(line)

C7_BuiltinsCreateNoProcess ==
    [][\A line \in AliasLines :
         (IterationOn(line) /\ FirstToken(line) \in BuiltinNames)
         => /\ \A p \in Pids : proc'[p] = "running" => proc[p] = "running"
            /\ ev'.kind \notin {"launch_fg", "launch_bg", "fork_failed"}]_vars

\* C8: no two entries of the alias table have the same name, and setting a
\* name some entry has leaves the number of entries as it is and gives that
\* entry the value
C8_AliasNamesUnique ==
    /\ [](\A i, j \in 1..Len(aliases) :
             i # j => aliases[i].name # aliases[j].name)
    /\ [][\A n \in AliasNames, v \in AliasValues :
            (Builtin(SetLine(n, v)) /\ \E k \in 1..Len(aliases) : aliases[k].name = n)
            => /\ Len(aliases') = Len(aliases)
               /\ \E k \in 1..Len(aliases) :
                    aliases[k].name = n /\ aliases' = [aliases EXCEPT ![k].value = v]]_vars

\* C9: the alias table never holds more than MAX_ALIASES entries; with the
\* table full, setting a name no entry has prints the limit error and leaves
\* the table unchanged, and setting a name an entry has gives that entry the
\* value without an error
C9_AliasCapacity ==
    /\ [](Len(aliases) <= MAX_ALIASES)
    /\ [][\A n \in AliasNames, v \in AliasValues :
            (Builtin(SetLine(n, v)) /\ Len(aliases) = MAX_ALIASES)
            => IF \E k \in 1..Len(aliases) : aliases[k].name = n
               THEN /\ ev'.err = ""
                    /\ \E k \in 1..Len(aliases) :
                         /\ aliases[k].name = n
                         /\ aliases' = [aliases EXCEPT ![k].value = v]
               ELSE /\ ev'.err = "Alias limit reached."
                    /\ aliases' = aliases]_vars

\* alias was refused at a full table
C9_Witness ==
    /\ ev.kind = "alias_set"
    /\ ev.err = "Alias limit reached."
    /\ Len(aliases) = MAX_ALIASES

\* C10: unalias with a name no entry has prints the not-found error and
\* leaves the table unchanged; with a name an entry has it removes one entry
\* of that name and keeps the others as they are, in their order
C10_UnaliasRemovesOne ==
    [][\A n \in AliasNames \cup {<<"a", "b">>} :
         Builtin(UnsetLine(n))
         => IF \E k \in 1..Len(aliases) : aliases[k].name = n
            THEN /\ ev'.err = ""
                 /\ \E k \in 1..Len(aliases) :
                      aliases[k].name = n /\ aliases' = AllBut(aliases, k)
            ELSE /\ ev'.err = "Alias not found"
                 /\ aliases' = aliases]_vars

\* unalias removed an entry of a full table
C10_Witness ==
    /\ ev.kind = "unalias"
    /\ ev.err = ""
    /\ Len(aliases) = MAX_ALIASES - 1

\* C20: cd with a path that cannot be entered prints an error, leaves the
\* working directory as it was and goes on to the next line; cd with no path
\* enters the directory HOME names
HomeUsable == home # NULL /\ home # <<>>

\* whether the path given to cd names a directory that can be entered
CanEnter(path) ==
    IF Head(path) # "~" THEN chdir(cwd, path).ok
    ELSE /\ HomeUsable
         /\ Len(path) = 1 \/ path[2] = "/"
         /\ chdir(cwd, home \o Tail(path)).ok

Expanded == pc \in {"expanded", "parsed", "nocmd", "globbed", "exec"}

C11_AliasExpandsFirstTokenOnly ==
    Expanded =>
      LET lt == strtok_seq(ev.line) IN
      IF lt # <<>> /\ \E k \in 1..Len(aliases) : aliases[k].name = lt[1]
      THEN \E k \in 1..Len(aliases) :
             /\ aliases[k].name = lt[1]
             /\ strtok_seq(ev.out) = strtok_seq(aliases[k].value) \o Tail(lt)
      ELSE strtok_seq(ev.out) = lt

\* the line "a b a" with a -> x and b -> x was run as x b a
C11_Witness ==
    /\ pc = "exec"
    /\ ev.line = <<"a", SP, "b", SP, "a">>
    /\ get_alias_value(aliases, <<"a">>) = <<"x">>
    /\ get_alias_value(aliases, <<"b">>) = <<"x">>
    /\ ev.child.argv = << <<"x">>, <<"b">>, <<"a">> >>

\* C12: a line is expanded once: when the value of the alias is itself an
\* alias name (a -> a, or a -> b with b -> a), the value is the command name
\* the line is run with
C12_AliasExpandedOnce ==
    /\ (Expanded /\ pc # "expanded")
       => \A k \in 1..Len(aliases) :
            (strtok_seq(ev.line) # <<>> /\ aliases[k].name = strtok_seq(ev.line)[1])
            => /\ ev.parsed.args # <<>>
               /\ ev.parsed.args[1] = aliases[k].value
    /\ pc = "exec"
       => \A k \in 1..Len(aliases) :
            aliases[k].name = strtok_seq(ev.line)[1]
            => ev.child.argv[1] = aliases[k].value

\* the line "a" with a -> b and b -> a was run as b
C12_Witness ==
    /\ pc = "exec"
    /\ ev.line = <<"a">>
    /\ get_alias_value(aliases, <<"a">>) = <<"b">>
    /\ get_alias_value(aliases, <<"b">>) = <<"a">>
    /\ ev.child.argv = << <<"b">> >>

\* C13: after alias NAME='VALUE' or alias NAME="VALUE" has set the alias,
\* NAME resolves to VALUE, for values of one word and of several
C13_QuotedAliasValue ==
    [][\A n \in {<<"a">>, <<"b">>}, q \in Quotes, v \in QuotedValues :
         (Builtin(QuotedLine(n, q, v)) /\ ev'.err = "")
         => get_alias_value(aliases', n) = v]_vars

\* C14: the argument vector holds exactly the tokens that are neither an
\* operator nor the operand right after <, > or >>, in their order; the input
\* path is the operand of the last <, the output path and the append mode are
\* those of the last > or >>, and the background flag is set exactly when
\* some token is &.  A token right after a redirection operator is read as
\* its operand, whatever it is.
RedirTokens == { <<"<">>, <<">">>, <<">", ">">> }
OperTokens == RedirTokens \cup { <<"&">> }

\* whether the k-th token is the operand of the redirection operator before it
RECURSIVE IsOperand(_, _)
IsOperand(toks, k) ==
    k > 1 /\ toks[k - 1] \in RedirTokens /\ ~IsOperand(toks, k - 1)

IsOperator(toks, k) == toks[k] \in OperTokens /\ ~IsOperand(toks, k)

RECURSIVE WordsFrom(_, _)
WordsFrom(toks, k) ==
    IF k > Len(toks) THEN <<>>
    ELSE IF IsOperator(toks, k) \/ IsOperand(toks, k)
         THEN WordsFrom(toks, k + 1)
         ELSE <<toks[k]>> \o WordsFrom(toks, k + 1)

\* the position of the last operator of toks that is in S, 0 when there is
\* none
LastOf(toks, S) ==
    LET at == { k \in 1..Len(toks) : toks[k] \in S /\ IsOperator(toks, k) } IN
    IF at = {} THEN 0 ELSE CHOOSE k \in at : \A m \in at : m <= k

OperandOf(toks, k) == IF k = 0 \/ k = Len(toks) THEN NULL ELSE toks[k + 1]

HasParsed ==
    pc \in {"parsed", "nocmd", "globbed", "exec"}

C14_ParserSeparatesOperators ==
    HasParsed =>
      LET toks == strtok_seq(ev.out)
          o == LastOf(toks, { <<">">>, <<">", ">">> })
      IN  /\ ev.parsed.args = WordsFrom(toks, 1)
          /\ ev.parsed.infile = OperandOf(toks, LastOf(toks, { <<"<">> }))
          /\ ev.parsed.outfile = OperandOf(toks, o)
          /\ ev.parsed.append = (IF o # 0 /\ toks[o] = <<">", ">">> THEN 1 ELSE 0)
          /\ ev.parsed.background = 1 <=> \E k \in 1..Len(toks) : toks[k] = <<"&">>

\* C15: when <, > or >> is the last token of the line, its target is absent,
\* the command reports a usage error, and no redirection is made for it
TrailingRedir(toks) ==
    toks # <<>> /\ toks[Len(toks)] \in RedirTokens /\ IsOperator(toks, Len(toks))

C15_TrailingOperatorIsUsageError ==
    LET toks == strtok_seq(ev.out) IN
    /\ (HasParsed /\ TrailingRedir(toks))
       => IF toks[Len(toks)] = <<"<">> THEN ev.parsed.infile = NULL
          ELSE ev.parsed.outfile = NULL
    /\ (pc = "exec" /\ TrailingRedir(toks))
       => /\ ev.child.err # ""
          /\ ev.child.argv = <<>>

\* C16: a line that holds nothing but spaces and tabs, the empty line
\* included, creates no process and makes the shell print nothing about it
WhitespaceLines ==
    { l \in JobLines : \A k \in 1..Len(l) : l[k] \in {SP, TAB} }

C16_WhitespaceLineDoesNothing ==
    [][(EmptyLine \/ \E line \in WhitespaceLines : IterationOn(line))
         => /\ \A p \in Pids : proc'[p] = "running" => proc[p] = "running"
            /\ ev'.kind \in {"empty", "nocmd"}
            /\ ev'.err = ""]_vars

\* C17: the vector expand_globs builds is the concatenation, in order, of
\* what each token stands for: the token itself when it has no * or ?, its
\* matches in ascending order, once each, when it has; also when two or more
\* tokens are patterns
HasWild(t) == \E k \in 1..Len(t) : t[k] \in {"*", "?"}

\* the matches of the pattern t, in ascending order
Matches(t) ==
    Sorted({ e \in Candidates(cwd, glob_tilde(home, t)) :
               fnmatch(glob_tilde(home, t), e) })

OwnExpansion(t) ==
    IF HasWild(t) /\ Matches(t) # <<>> THEN Matches(t) ELSE <<t>>

RECURSIVE ExpansionsFrom(_, _)
ExpansionsFrom(args, i) ==
    IF i > Len(args) THEN <<>>
    ELSE OwnExpansion(args[i]) \o ExpansionsFrom(args, i + 1)

HasExpanded == pc \in {"globbed", "exec"}

C17_GlobExpandsEachTokenInPlace ==
    HasExpanded =>
      [k \in 1..Len(ev.expanded.argv) |-> ev.expanded.argv[k].str]
        = ExpansionsFrom(ev.parsed.args, 1)

\* C18: a pattern that matches no file reaches the program as the token it
\* is, at its place among the other arguments
NoMatch(t) == HasWild(t) /\ Matches(t) = <<>>

\* the entries of the sequence s at the positions in I, in their order
RECURSIVE Pick(_, _, _)
Pick(s, I, k) ==
    IF k > Len(s) THEN <<>>
    ELSE IF k \in I THEN <<s[k]>> \o Pick(s, I, k + 1)
    ELSE Pick(s, I, k + 1)

C18_UnmatchedPatternIsLiteral ==
    (pc = "exec" /\ ev.child.err = "") =>
      LET args == ev.parsed.args
          a == ev.expanded.argv
          argv == ev.child.argv
          own == { k \in 1..Len(a) : ~a[k].glob }
          lit == { i \in 1..Len(args) : ~HasWild(args[i]) \/ NoMatch(args[i]) }
      IN  /\ Pick(argv, own, 1) = Pick(args, lit, 1)
          /\ (\A i \in 1..Len(args) : i \in lit) => argv = args
          /\ \A i \in 1..Len(args) :
               NoMatch(args[i])
               => \E k \in own :
                    /\ argv[k] = args[i]
                    /\ Cardinality({m \in own : m < k})
                         = Cardinality({j \in lit : j < i})
                    /\ (\E m \in 1..(k - 1) : a[m].glob)
                         <=> (\E j \in 1..(i - 1) : j \notin lit)

\* x * z* was run with the matches of * and then z* as it is
C18_Witness ==
    /\ pc = "exec"
    /\ ev.line = <<"x", SP, "*", SP, "z", "*">>
    /\ Len(ev.child.argv) = 5
    /\ ev.child.argv[5] = <<"z", "*">>
    /\ ev.child.argv[2] = <<"a">>

\* C19: an argument of an external command that starts with ~ reaches the
\* program with the ~ replaced by the value of HOME, with and without a * or
\* ? in it
C19_TildeArgumentExpanded ==
    (pc = "exec" /\ ev.child.err = "") =>
      LET args == ev.parsed.args
          argv == ev.child.argv
          given == { argv[k] : k \in 1..Len(argv) }
      IN  \A i \in 1..Len(args) :
            Head(args[i]) = "~"
            => /\ args[i] \notin given
               /\ ~HasWild(args[i]) => (home \o Tail(args[i])) \in given

\* C21: the loop ends only on the exit built-in or at the end of input, and
\* then the exit status of the shell is 0, for exit with and without an
\* argument; an iteration that reports an error, finds a table full or finds
\* no alias to remove, or a failed fork, leaves the loop at the prompt; a
\* launch leaves it at the prompt or in the wait for the child
ErrorEvent ==
    \/ ev'.err # ""
    \/ ev'.kind = "fork_failed"
    \/ untracked' # untracked
    \/ ev'.kind = "unalias" /\ aliases' = aliases

C21_LoopEndsOnlyOnExitOrEof ==
    [][/\ (pc # "done" /\ pc' = "done")
            => (ev'.kind \in {"exit", "eof"} /\ status' = 0)
       /\ pc' # "done" => status' = -1
       /\ Eof => (pc' = "done" /\ status' = 0)
       /\ \A line \in {w_exit, Join(<<w_exit, <<"1">> >>)} :
             Builtin(line) => (pc' = "done" /\ status' = 0)
       /\ (IterationOf(NonEmptyKinds) /\ ev'.kind # "exit") =>
             /\ pc' \in {"prompt", "wait_child", "wait_job"}
             /\ ErrorEvent => pc' = "prompt"]_vars

\* the shell has ended on exit after a launch that found the job table full
C21_Witness ==
    /\ pc = "done"
    /\ status = 0
    /\ ev.kind = "exit"
    /\ untracked # {}

\* C22: when fork fails for a command line, with or without "&", the shell
\* prints the error of fork, the job table is what the poll left (no entry
\* is added), no process is created, the shell is in no waitpid, and the
\* loop is at the prompt for the next line
LaunchLines == { <<"x">>, Join(<< <<"x">>, <<"&">> >>) }

C22_ForkFailureRegistersNothing ==
    [][\A line \in LaunchLines :
         ForkFail(line) =>
           /\ ev'.kind = "fork_failed" /\ ev'.err = "fork"
           /\ jobs' = Polled.jobs
           /\ ev'.started = -1
           /\ \A p \in Pids : proc'[p] = "running" => proc[p] = "running"
           /\ pc' = "prompt" /\ wait_pid' = 0
           /\ untracked' = untracked]_vars

\* a fork has failed while two jobs are in the table
C22_Witness ==
    /\ ev.kind = "fork_failed"
    /\ Len(jobs) = 2
    /\ pc = "prompt"

\* C23: an interrupt delivered to the shell, at the prompt, in the wait for
\* a foreground child or in the wait of fg, prints a message and changes
\* nothing else: the shell goes on where it was (it does not end), and the
\* job table and the alias table are as before
C23_InterruptOnlyPrints ==
    [][sigint_handler =>
         /\ pc' = pc /\ pc' # "done" /\ status' = -1
         /\ jobs' = jobs /\ aliases' = aliases
         /\ wait_pid' = wait_pid /\ job_id' = job_id
         /\ ev'.sig # ev.sig
         /\ [ev' EXCEPT !.sig = 0] = [ev EXCEPT !.sig = 0]]_vars

\* the message has been printed during fg's wait for a job, with a second
\* job in the table
C23_Witness ==
    /\ pc = "wait_job"
    /\ ev.sig = 1
    /\ Len(jobs) = 2

\* C24: a command with "> f" leaves in f exactly what it wrote, whatever f
\* held and whether or not f was there; c with "< f" writes what f holds,
\* and f stays as it is; a command with ">> f" leaves in f what f held
\* followed by what the command wrote
Wrote(p) == Output(child[p], disk)

C24_RedirectionRoundTrip ==
    [][\A p \in Pids :
         /\ (ChildOutput(p) /\ child'[p].stdout # NULL) =>
               LET path == child'[p].stdout IN
               /\ path \in DOMAIN disk'
               /\ child[p].append = 0 => disk'[path] = <<>>
               /\ (child[p].append = 1 /\ path \in DOMAIN disk)
                     => disk'[path] = disk[path]
               /\ (child[p].append = 1 /\ path \notin DOMAIN disk)
                     => disk'[path] = <<>>
         /\ (ProgramRun(p) /\ child[p].stdout # NULL) =>
               LET path == child[p].stdout IN
               /\ child[p].append = 0 => disk'[path] = Wrote(p)
               /\ child[p].append = 1 => disk'[path] = disk[path] \o Wrote(p)
         /\ (ProgramRun(p) /\ child[p].argv[1] = <<"c">>
                /\ child[p].stdin # NULL) =>
               /\ child'[p].out = disk[child[p].stdin]
               /\ child[p].stdout = NULL => disk' = disk]_vars

\* "e h > f", then "e w >> f", then "c < f": c has written the two lines in
\* their order
C24_Witness ==
    /\ pc = "prompt"
    /\ child[1].pc = "exited"
    /\ child[1].out = << <<"h">>, <<"w">> >>
    /\ (HomeDir \o <<"/", "f">>) \in DOMAIN disk
    /\ disk[HomeDir \o <<"/", "f">>] = << <<"h">>, <<"w">> >>

\* C25: from the launch of a foreground command until its process has
\* exited, the loop stays in the waitpid for that process: it reads no line,
\* polls no job (the table stays as it is, no process in it is collected)
\* and prints no notice; it leaves the waitpid only when that process has
\* exited, and then it is at the prompt with the table unchanged
C25_ForegroundWaitBlocksLoop ==
    [][/\ (pc = "prompt" /\ pc' = "wait_child") =>
            (wait_pid' \in Pids /\ proc'[wait_pid'] = "running"
             /\ proc[wait_pid'] # "running")
       /\ pc = "wait_child" =>
            /\ jobs' = jobs /\ aliases' = aliases
            /\ \A p \in TablePids : proc'[p] # "free"
            /\ IF proc[wait_pid] = "zombie" /\ ~IsChildExit
               THEN /\ pc' = "prompt"
                    /\ proc'[wait_pid] = "free"
                    /\ ev'.kind = "child_done" /\ ev'.notices = <<>>
               ELSE /\ pc' = "wait_child" /\ wait_pid' = wait_pid
                    /\ ev' = ev]_vars

\* the loop waits for a foreground process that runs while a background job
\* in the table has already exited
C25_Witness ==
    /\ pc = "wait_child"
    /\ proc[wait_pid] = "running"
    /\ \E k \in 1..Len(jobs) : proc[jobs[k].pid] = "zombie"

\* C26: every pid in the job table, and the pid of every waitpid the shell
\* is in or makes in a poll (the pids of the table), is a child this shell
\* forked and has not yet collected; fg waits for the pid of the entry it
\* names; and a process becomes a child of the shell only by the fork of a
\* command line
OwnChild(p) == p \in Pids /\ proc[p] \in {"running", "zombie"}

WaitsOnOwnChildren ==
    /\ \A k \in 1..Len(jobs) : OwnChild(jobs[k].pid)
    /\ pc \in {"wait_child", "wait_job"} => OwnChild(wait_pid)
    /\ pc = "wait_job" =>
          (job_id + 1 \in 1..Len(jobs) /\ wait_pid = jobs[job_id + 1].pid)
    /\ pc \in {"prompt", "done"} => wait_pid = 0

C26_WaitsOnlyOnOwnChildren ==
    [][/\ WaitsOnOwnChildren
       /\ WaitsOnOwnChildren'
       /\ \A p \in Pids :
            (proc[p] = "free" /\ proc'[p] # "free") =>
               (pc = "prompt" /\ ev'.kind \in {"launch_fg", "launch_bg"}
                /\ proc'[p] = "running"
                /\ (p \in TablePids' \/ p \in untracked' \/ wait_pid' = p))
       /\ \A p \in Pids :
            (proc[p] # "free" /\ proc'[p] = "free") =>
               (p \in TablePids \/ p = wait_pid)]_vars

\* fg waits for a job of a full table while a child that is in no table runs
C26_Witness ==
    /\ pc = "wait_job"
    /\ Len(jobs) = MAX_JOBS
    /\ untracked # {}

\* C27: a child whose program execvp cannot start, or whose input or output
\* file cannot be opened, ends with exit status 1, and the shell is where it
\* was: same pc, tables, exit status and output.  A program runs only in a
\* child whose opens have all succeeded.  An iteration of the loop removes
\* from the job table every entry whose process has exited, those of failed
\* children too, and prints its notice.
ChildFails(p) ==
    /\ child[p].pc \in {"reset", "in_done", "out_done"}
    /\ child'[p].pc = "exited"
    /\ child'[p].err \in {"input", "output", "execvp"}

Starts(p) == child[p].pc # "program" /\ child'[p].pc = "program"

C27_ChildFailureStaysInChild ==
    [][/\ \A p \in Pids :
            /\ ChildFails(p) =>
                  /\ child'[p].code = 1
                  /\ proc'[p] = "zombie"
                  /\ UNCHANGED <<pc, jobs, aliases, status, wait_pid, ev, disk>>
            /\ (child[p].pc = "reset" /\ child[p].infile # NULL
                 /\ ~open_rdonly(disk, AbsPath(child[p].cwd, child[p].infile))
                 /\ child'[p] # child[p])
                  => (ChildFails(p) /\ child'[p].err = "input")
            /\ (child[p].pc = "out_done" /\ child[p].argv[1] \notin Programs
                 /\ child'[p] # child[p])
                  => (ChildFails(p) /\ child'[p].err = "execvp")
            /\ Starts(p) =>
                  /\ child[p].pc = "out_done" /\ child[p].err = ""
                  /\ child[p].infile # NULL => child[p].stdin # NULL
                  /\ child[p].outfile # NULL => child[p].stdout # NULL
       /\ (pc = "prompt" /\ ev' # ev) =>
            /\ pc' # "done" /\ status' = -1
            /\ \A k \in 1..Len(jobs) :
                  proc[jobs[k].pid] = "zombie" =>
                    /\ jobs[k].pid \notin TablePids'
                    /\ \E n \in 1..Len(ev'.notices) :
                          ev'.notices[n] = jobs[k].command]_vars

\* "z &" has been launched, execvp has failed in its child, which has ended
\* with status 1, and a poll has removed the job and printed its notice
C27_Witness ==
    /\ pc = "prompt"
    /\ jobs = <<>>
    /\ ev.notices = << Join(<< <<"z">>, <<"&">> >>) >>
    /\ \E p \in Pids :
          /\ proc[p] = "free"
          /\ child[p].pc = "exited"
          /\ child[p].err = "execvp"
          /\ child[p].code = 1

\* C28: a child that has reached its redirections, has started its program
\* or has ended has SIGINT at its default disposition: the reset is the
\* first thing a child does, so no open, no execvp and no program happens
\* in a child that has the handler of the shell
PastReset(p) ==
    child[p].pc \in {"reset", "in_done", "out_done", "program", "exited"}

C28_ChildResetsInterrupt ==
    \A p \in Pids :
        /\ PastReset(p) => child[p].sigint = "SIG_DFL"
        /\ child[p].pc = "forked" =>
              (child[p].stdin = NULL /\ child[p].stdout = NULL)

\* a program runs with its output in a file and SIGINT at its default
C28_Witness ==
    \E p \in Pids :
        /\ child[p].pc = "program"
        /\ child[p].stdout # NULL
        /\ child[p].sigint = "SIG_DFL"

\* C29: every iteration that reads a line, the empty line too, runs the poll
\* once, before the line is expanded and dispatched: the notices printed
\* and the processes collected are those of one check_background_jobs on
\* the table as it was, and the "[n] pid" line of a background launch and
\* the job fg waits for are taken from the table the poll left
ReadsLine == pc = "prompt" /\ ~IsChildExit /\ ev'.kind # "eof"

C29_PollOncePerLineRead ==
    [][ReadsLine =>
         /\ ev'.notices = Polled.notices
         /\ \A p \in Polled.reaped : proc'[p] # "zombie"
         /\ \A p \in Pids \ Polled.reaped :
               proc[p] = "zombie" => proc'[p] = "zombie"
         /\ ev'.kind = "launch_bg" => ev'.started = Len(Polled.jobs)
         /\ ev'.kind = "fg_wait" => wait_pid' = Polled.jobs[job_id' + 1].pid
         /\ ev'.kind \notin {"launch_bg", "fg_wait"} => jobs' = Polled.jobs]_vars

\* C30: the tokens of a line are its maximal runs of characters that are
\* neither a space nor a tab, from left to right
RECURSIVE RunsFrom(_, _, _)
RunsFrom(s, run, acc) ==
    IF s = <<>> THEN IF run = <<>> THEN acc ELSE Append(acc, run)
    ELSE IF Head(s) \in {SP, TAB}
         THEN RunsFrom(Tail(s), <<>>,
                       IF run = <<>> THEN acc ELSE Append(acc, run))
         ELSE RunsFrom(Tail(s), Append(run, Head(s)), acc)

Runs(s) == RunsFrom(s, <<>>, <<>>)

C30_TokensAreRunsBetweenBlanks ==
    pc \in {"parsed", "nocmd"} => ev.parsed.args = Runs(ev.line)

\* C31: the interrupt handler calls no routine that works on the stream
\* stdout or on the heap, so an interrupt that arrives while main is inside
\* printf (a job notice, the list of jobs or of aliases), strdup or free
\* re-enters nothing
C31_HandlerReentersNothing == ev.reentered = {}

\* the previous line was `jobs`, which printed "[i] pid command" for
\* jobs[i]: the table in this state is the table as listed.  The process
\* of the job listed as [i] has not exited since.
Listed(i) ==
    /\ ev.kind = "jobs"
    /\ i < Len(jobs)
    /\ proc[jobs[i + 1].pid] = "running"

\* C32: the index under which `jobs` lists a job identifies the same job
\* when it is given to `fg` on the next input line, even if another
\* background job's process exits between the two lines: `fg i` then waits
\* for the process that was listed as [i].
C32_ListedIndexNamesSameJob ==
    [][\A i \in 0..(MAX_JOBS - 1) :
          Listed(i) /\ Builtin(FgLine(i))
              => pc' = "wait_job" /\ wait_pid' = jobs[i + 1].pid]_vars

\* the number of entries parse_command has written to args[], and
\* expand_globs to expanded_args[], the terminating NULL included
Written(v) == Len(v) + 1

\* C33: for every input line, however many tokens it has and however many
\* files its wildcard tokens match, the number of entries written to the
\* parsed argument vector and to the glob-expanded argument vector, the
\* terminating null entry included, never exceeds MAX_TOKENS.
C33_VectorsWithinCapacity ==
    /\ ev.kind \in {"parsed", "globbed"}
          => Written(ev.parsed.args) <= MAX_TOKENS
    /\ ev.kind = "globbed" => Written(ev.expanded.argv) <= MAX_TOKENS

\* the program has been handed its argument vector (both redirections, if
\* any, were opened)
Launched == ev.kind = "exec" /\ ev.child.err = ""

\* C34: every string of the argument vector handed to the program launch
\* still refers to live storage at the moment of the launch: the strings
\* glob produced are not released between expand_globs returning and the
\* child executing the program, so the program receives each string as
\* expand_globs stored it.
C34_ArgumentsLiveAtLaunch ==
    Launched =>
        /\ ev.expanded.pathv = <<>>
        /\ \A k \in 1..Len(ev.expanded.argv) :
              ev.child.argv[k] = ev.expanded.argv[k].str

\* the pids of the job table are pairwise distinct, each is a child that has
\* not been collected, and none is the foreground child or a child that was
\* left out of the table
TableSound ==
    /\ \A k, m \in 1..Len(jobs) : k # m => jobs[k].pid # jobs[m].pid
    /\ \A k \in 1..Len(jobs) : OwnChild(jobs[k].pid)
    /\ TablePids \cap untracked = {}
    /\ pc = "wait_child" => wait_pid \notin TablePids

\* C35: in every reachable state the pids in the job table are pairwise
\* distinct and each belongs to a child of the shell that has not been
\* collected.  A step that collects the exit of a job's process removes its
\* entry, and an iteration of the loop leaves no process of the table that
\* had exited uncollected.
C35_TableHoldsUncollectedChildren ==
    /\ []TableSound
    /\ [][\A p \in TablePids :
            /\ proc'[p] = "free" => p \notin TablePids'
            /\ (IterationOf(NonEmptyKinds) /\ proc[p] = "zombie")
                  => proc'[p] # "zombie"]_vars

\* a poll has collected two jobs and kept a third; the job launched in the
\* same iteration has the pid of one of the two
C35_Witness ==
    /\ ev.kind = "launch_bg"
    /\ Len(ev.notices) = 2
    /\ Len(jobs) = 2
    /\ jobs[2].pid < jobs[1].pid

\* the "[done] command" lines the shell prints in a step (a child that
\* exits is a step of the kernel: the shell prints nothing in it)
Printed == IF IsChildExit THEN <<>> ELSE ev'.notices

\* the entries of the table whose process has exited, in table order
ExitedJobs == SelectSeq(jobs, LAMBDA j : proc[j.pid] = "zombie")

\* C36: over any run, a completion notice is printed at most once for each
\* registered background job, only after that job's process has exited, and
\* never for a job that was removed by fg.  Every notice of a step is for an
\* entry of its own whose process had exited, printed by the poll at the
\* prompt; the step collects that process and takes the entry out of the
\* table, so no later step finds it.  The step in which fg returns prints
\* none, and the job it waited for is collected and out of the table.
C36_NoticeOncePerExitedJob ==
    [][/\ Len(Printed) <= Len(ExitedJobs)
       /\ \A n \in 1..Len(Printed) :
            /\ Printed[n] = ExitedJobs[n].command
            /\ proc'[ExitedJobs[n].pid] # "zombie"
       /\ Printed # <<>> => pc = "prompt"
       /\ Len(jobs') <= Len(jobs) - Len(Printed)
                           + (IF ev'.kind = "launch_bg" THEN 1 ELSE 0)
       /\ (pc = "wait_job" /\ pc' # "wait_job") =>
            /\ Printed = <<>>
            /\ proc'[wait_pid] = "free"
            /\ wait_pid \notin TablePids']_vars

\* the iteration of an fg line has printed the notice of a job that had
\* exited, and waits for another job
C36_Witness ==
    /\ ev.kind = "fg_wait"
    /\ Len(ev.notices) >= 1
    /\ pc = "wait_job"
    /\ proc[wait_pid] = "running"

\* the alias table after the loop has taken the line, from the table A:
\* expand_alias and parse_command, then the dispatch chain
TableAfter(A, line) ==
    Decide(jobs, A, parse_command(expand_alias(A, line)).args).aliases

\* the table after the next line, read in the state the step leads to
TableAfterNext(line) ==
    Decide(jobs', aliases',
           parse_command(expand_alias(aliases', line)).args).aliases

\* C37: for every name n that is not in the alias table and every value v,
\* the line `alias n=v` followed by the line `unalias n` leaves the alias
\* table equal to what it was before the two lines.
C37_AliasUnaliasRoundTrip ==
    [][\A n \in AliasNames, v \in AliasValues :
          (FindAlias(aliases, n) = 0 /\ Builtin(SetLine(n, v)))
              => TableAfterNext(UnsetLine(n)) = aliases]_vars

\* C38: fg waits on job i only when its argument is the decimal numeral of
\* i: an argument that is not a decimal integer (abc, %1) is reported as an
\* invalid job index, no wait is performed, and the job table is unchanged
\* (but for the entries the poll at the head of the iteration removes).
C38_NonDecimalIndexIsInvalid ==
    [][\A b \in BadIndexes :
          Builtin(Join(<<w_fg, b>>)) =>
              /\ ev'.kind = "fg_invalid"
              /\ pc' = "prompt"
              /\ jobs' = Polled.jobs]_vars

\* C39: the parsed command of each input line is constructed fresh: the
\* background flag, input path, output path and append mode used for a line
\* depend only on that line's own tokens (they are what parsing the line
\* alone gives, whatever the line before has left), so a redirection or &
\* on one line never affects the launch of any later line.
C39_ParsedCommandIsFresh ==
    pc = "parsed" =>
        LET alone == parse_command(expand_alias(aliases, ev.line)) IN
        /\ ev.parsed.background = alone.background
        /\ ev.parsed.infile = alone.infile
        /\ ev.parsed.outfile = alone.outfile
        /\ ev.parsed.append = alone.append
        /\ ev.parsed.args = alone.args

\* a plain command has been parsed after a line that had an output
\* redirection in append mode and &
C39_Witness ==
    /\ pc = "parsed"
    /\ ev.slot.background = 1
    /\ ev.slot.outfile # NULL
    /\ ev.slot.append = 1
    /\ ev.parsed = [NoCommand EXCEPT !.args = << <<"x">> >>]

=============================================================================
